---- MODULE Spec2Model ----
(***************************************************************************)
(* A model of dockerfile-utils' Validator (src/src/dockerValidator.ts) and *)
(* of the public validate entry point (src/src/main.ts).                   *)
(*                                                                         *)
(* The validator consumes the syntax tree that the dockerfile-ast parser   *)
(* builds from the document's text.  A document is modelled by the items   *)
(* the parser hands back (parser directives, comments, instructions), each *)
(* laid out on its own lines: keywords start at column 0 and arguments are *)
(* separated by one space.  Argument text is kept character by character   *)
(* wherever the validator scans it.                                        *)
(***************************************************************************)
EXTENDS Integers, Sequences, FiniteSets, TLC

VARIABLES document, settings, problems, threw, pc,
          buffer, formatting, request, edits, again, validator

vars == <<document, settings, problems, threw, pc,
          buffer, formatting, request, edits, again, validator>>

(***************************************************************************)
(* Bounds of the model.                                                    *)
(***************************************************************************)
MaxItems == 3

MaxLines == 3

MaxColumn == 4

MaxFlags == 2

MaxPairs == 2

MaxReuseItems == 2

MaxCalls == 2

(***************************************************************************)
(* Characters.                                                             *)
(***************************************************************************)
Lowers == <<"a","b","c","d","e","f","g","h","i","j","k","l","m",
            "n","o","p","q","r","s","t","u","v","w","x","y","z">>

Uppers == <<"A","B","C","D","E","F","G","H","I","J","K","L","M",
            "N","O","P","Q","R","S","T","U","V","W","X","Y","Z">>

Digits == {"0","1","2","3","4","5","6","7","8","9"}

LowerSet == {Lowers[i] : i \in 1..26}

UpperSet == {Uppers[i] : i \in 1..26}

toLowerChar(c) ==
    IF c \in UpperSet THEN Lowers[CHOOSE i \in 1..26 : Uppers[i] = c] ELSE c

toUpperChar(c) ==
    IF c \in LowerSet THEN Uppers[CHOOSE i \in 1..26 : Lowers[i] = c] ELSE c

toLowerCase(s) == [i \in 1..Len(s) |-> toLowerChar(s[i])]

toUpperCase(s) == [i \in 1..Len(s) |-> toUpperChar(s[i])]

(***************************************************************************)
(* Positions and ranges: zero-based line and character.                    *)
(***************************************************************************)
Pos(line, character) == [line |-> line, character |-> character]

Rng(start, end) == [start |-> start, end |-> end]

LineRng(line, from, to) == Rng(Pos(line, from), Pos(line, to))

NoLine == -1

(* The grave accent, which a TLA+ string cannot hold, is written "~". *)
Backtick == "~"

(***************************************************************************)
(* The document.  An item is a parser directive, a comment or an           *)
(* instruction.  An instruction has its keyword as written and in upper    *)
(* case, the arguments of its first line, and its continuation lines: a    *)
(* "text" line holds one more argument, a "blank" line only whitespace.    *)
(* The lines of a heredoc are "content" lines, "blankContent" lines (only  *)
(* whitespace) and the "delimiter" line that closes the heredoc.           *)
(* An ONBUILD instruction holds its trigger instruction instead of         *)
(* arguments.                                                              *)
(***************************************************************************)
NoTrigger == [written |-> "", keyword |-> "", args |-> <<>>]

Directive(name, directive, value) ==
    [type |-> "directive", name |-> name, directive |-> directive, value |-> value]

Comment(content) == [type |-> "comment", content |-> content]

Instruction(written, keyword, args, cont) ==
    [type |-> "instruction", written |-> written, keyword |-> keyword,
     flags |-> <<>>, args |-> args, cont |-> cont, trigger |-> NoTrigger]

OnbuildInstruction(written, trigger, cont) ==
    [type |-> "instruction", written |-> written, keyword |-> "ONBUILD",
     flags |-> <<>>, args |-> <<>>, cont |-> cont, trigger |-> trigger]

RECURSIVE Flatten(_)
Flatten(seqs) == IF seqs = <<>> THEN <<>> ELSE Head(seqs) \o Flatten(Tail(seqs))

(* A flag is written --name or --name=value between the keyword and the    *)
(* arguments.  The value of a duration flag is typed pair by pair, each a  *)
(* magnitude and a unit.                                                   *)
Flag(name, hasValue, pairs) == [name |-> name, hasValue |-> hasValue, pairs |-> pairs]

FlagValue(flag) ==
    Flatten([k \in 1..Len(flag.pairs) |->
                flag.pairs[k].magnitude \o flag.pairs[k].unit])

FlagWidth(flag) ==
    2 + Len(flag.name) + (IF flag.hasValue THEN 1 + Len(FlagValue(flag)) ELSE 0)

RECURSIVE FlagsWidth(_)
FlagsWidth(flags) ==
    IF flags = <<>> THEN 0 ELSE FlagWidth(Head(flags)) + 1 + FlagsWidth(Tail(flags))

ContToken == <<"x">>

Height(item) == IF item.type = "instruction" THEN 1 + Len(item.cont) ELSE 1

RECURSIVE SumLen(_)
SumLen(tokens) ==
    IF tokens = <<>> THEN 0 ELSE Len(Head(tokens)) + 1 + SumLen(Tail(tokens))

RECURSIVE StartLine(_, _)
StartLine(doc, i) ==
    IF i = 1 THEN 0 ELSE StartLine(doc, i - 1) + Height(doc[i - 1])

(* Width of the text an instruction (or trigger) puts on its first line. *)
HeadWidth(ins) ==
    Len(ins.written) + FlagsWidth(ins.flags) + SumLen(ins.args)
      + (IF ins.trigger = NoTrigger THEN 0
         ELSE 1 + Len(ins.trigger.written) + SumLen(ins.trigger.args))

ItemWidths(item) ==
    IF item.type = "directive" THEN <<2 + Len(item.name) + Len(item.value)>>
    ELSE IF item.type = "comment" THEN <<2 + Len(item.content)>>
    ELSE <<HeadWidth(item)
             + (IF item.cont # <<>> /\ item.cont[1] \in {"text", "blank"} THEN 2 ELSE 0)>>
           \o [k \in 1..Len(item.cont) |->
                 IF item.cont[k] \in {"blank", "blankContent"} THEN 0
                 ELSE IF item.cont[k] \in {"content", "delimiter"} THEN 1
                 ELSE Len(ContToken) + (IF k < Len(item.cont) THEN 2 ELSE 0)]

RECURSIVE LineWidths(_)
LineWidths(doc) ==
    IF doc = <<>> THEN <<>>
    ELSE LineWidths(SubSeq(doc, 1, Len(doc) - 1)) \o ItemWidths(doc[Len(doc)])

(* TextDocument.lineCount: a document always has a line 0. *)
lineCount(doc) == IF doc = <<>> THEN 1 ELSE Len(LineWidths(doc))

LineWidth(doc, line) == IF doc = <<>> THEN 0 ELSE LineWidths(doc)[line + 1]

(***************************************************************************)
(* The syntax tree.  A node is an instruction with the positions the       *)
(* parser reports: getInstructionRange (kwRange), getRange (line to        *)
(* endLine), getArguments (value and range of each argument).              *)
(***************************************************************************)
RECURSIVE FirstLineArgs(_, _, _)
FirstLineArgs(tokens, line, col) ==
    IF tokens = <<>> THEN <<>>
    ELSE <<[value |-> Head(tokens),
            range |-> LineRng(line, col, col + Len(Head(tokens)))]>>
           \o FirstLineArgs(Tail(tokens), line, col + Len(Head(tokens)) + 1)

ContArgs(cont, line) ==
    LET idx == {k \in 1..Len(cont) : cont[k] = "text"}
        RECURSIVE Build(_)
        Build(k) ==
            IF k > Len(cont) THEN <<>>
            ELSE (IF k \in idx
                  THEN <<[value |-> ContToken,
                          range |-> LineRng(line + k, 0, Len(ContToken))]>>
                  ELSE <<>>) \o Build(k + 1)
    IN Build(1)

(* ModifiableInstruction.getFlags *)
RECURSIVE getFlags(_, _, _)
getFlags(flags, line, col) ==
    IF flags = <<>> THEN <<>>
    ELSE LET flag == Head(flags)
             nameEnd == col + 2 + Len(flag.name)
         IN  <<[name |-> flag.name,
                value |-> FlagValue(flag),
                null |-> ~flag.hasValue,
                range |-> LineRng(line, col, col + FlagWidth(flag)),
                nameRange |-> LineRng(line, col + 2, nameEnd),
                valueRange |-> LineRng(line, nameEnd + 1,
                                       nameEnd + 1 + Len(FlagValue(flag)))]>>
               \o getFlags(Tail(flags), line, col + FlagWidth(flag) + 1)

(* The trigger of an ONBUILD instruction as an instruction of its own. *)
TriggerNode(item, line) ==
    LET col == Len(item.written) + 1
        t   == item.trigger
    IN [keyword |-> t.keyword, instruction |-> t.written,
        line |-> line, endLine |-> line + Len(item.cont), cont |-> item.cont,
        kwRange |-> LineRng(line, col, col + Len(t.written)),
        flags |-> <<>>,
        args |-> FirstLineArgs(t.args, line, col + Len(t.written) + 1)
                   \o ContArgs(item.cont, line),
        hasTrigger |-> FALSE, trigger |-> t.keyword,
        triggerRange |-> LineRng(line, col, col + Len(t.written))]

Node(item, line) ==
    LET hasT == item.trigger # NoTrigger
        col  == Len(item.written) + 1
    IN [keyword |-> item.keyword, instruction |-> item.written,
        line |-> line, endLine |-> line + Len(item.cont), cont |-> item.cont,
        kwRange |-> LineRng(line, 0, Len(item.written)),
        flags |-> getFlags(item.flags, line, col),
        args |-> (IF hasT
                  THEN <<[value |-> <<>>,
                          range |-> LineRng(line, col, col + Len(item.trigger.written))]>>
                         \o FirstLineArgs(item.trigger.args, line,
                                          col + Len(item.trigger.written) + 1)
                  ELSE FirstLineArgs(item.args, line, col + FlagsWidth(item.flags)))
                 \o ContArgs(item.cont, line),
        hasTrigger |-> hasT, trigger |-> item.trigger.keyword,
        triggerRange |-> LineRng(line, col, col + Len(item.trigger.written))]

RECURSIVE SelectIndexes(_, _, _)
SelectIndexes(doc, i, type) ==
    IF i > Len(doc) THEN <<>>
    ELSE (IF doc[i].type = type THEN <<i>> ELSE <<>>) \o SelectIndexes(doc, i + 1, type)

(* Dockerfile.getInstructions *)
getInstructions(doc) ==
    LET idx == SelectIndexes(doc, 1, "instruction")
    IN [k \in 1..Len(idx) |-> Node(doc[idx[k]], StartLine(doc, idx[k]))]

(* Dockerfile.getOnbuildTriggers *)
getOnbuildTriggers(doc) ==
    LET idx == SelectSeq(SelectIndexes(doc, 1, "instruction"),
                         LAMBDA i : doc[i].trigger # NoTrigger)
    IN [k \in 1..Len(idx) |-> TriggerNode(doc[idx[k]], StartLine(doc, idx[k]))]

(* Dockerfile.getComments *)
getComments(doc) ==
    LET idx == SelectIndexes(doc, 1, "comment")
    IN [k \in 1..Len(idx) |-> [content |-> doc[idx[k]].content,
                                line |-> StartLine(doc, idx[k])]]

(* Dockerfile.getDirectives *)
getDirectives(doc) ==
    LET idx == SelectIndexes(doc, 1, "directive")
    IN [k \in 1..Len(idx) |->
          LET d == doc[idx[k]]
              l == StartLine(doc, idx[k])
          IN [name |-> d.name, directive |-> d.directive, value |-> d.value,
              nameRange |-> LineRng(l, 1, 1 + Len(d.name)),
              valueRange |-> LineRng(l, 2 + Len(d.name), 2 + Len(d.name) + Len(d.value))]]

(***************************************************************************)
(* Severity configuration (main.ts ValidationSeverity, ValidatorSettings). *)
(* A key that a settings object leaves out reads as undefined.             *)
(***************************************************************************)
SettingKeys ==
    {"deprecatedMaintainer", "directiveCasing", "emptyContinuationLine",
     "instructionCasing", "instructionCmdMultiple",
     "instructionEntrypointMultiple", "instructionHealthcheckMultiple",
     "instructionJSONInSingleQuotes", "instructionWorkdirRelative"}

ValidationSeverity == {"IGNORE", "WARNING", "ERROR"}

Undefined == "undefined"

(* The optional settings argument: absent, or an object. *)
NoSettings == [given |-> FALSE, object |-> [k \in SettingKeys |-> Undefined]]

SettingsObject(object) == [given |-> TRUE, object |-> object]

(* The field initialiser of Validator.settings. *)
DefaultSettings == [k \in SettingKeys |-> "WARNING"]

(* A variant that merges the settings object into the defaults. *)
ValidatorSettingsOf_Merged(given) ==
    [k \in SettingKeys |->
       IF given.given /\ given.object[k] # Undefined
       THEN given.object[k] ELSE DefaultSettings[k]]

(* Validator.constructor: a settings object replaces the defaults whole. *)
ValidatorSettingsOf(given) == IF given.given THEN given.object ELSE DefaultSettings

(***************************************************************************)
(* Diagnostics.  The message of a diagnostic is kept as the arguments its   *)
(* text is formatted with.                                                 *)
(***************************************************************************)
createDiagnostic(severity, instructionLine, range, parameter, code, tags) ==
    [instructionLine |-> instructionLine, range |-> range, message |-> parameter,
     severity |-> severity, code |-> code, tags |-> tags]

createError(instructionLine, range, parameter, code, tags) ==
    createDiagnostic("Error", instructionLine, range, parameter, code, tags)

createWarning(instructionLine, range, parameter, code, tags) ==
    createDiagnostic("Warning", instructionLine, range, parameter, code, tags)

createJSONInSingleQuotes(instructionLine, range, severity) ==
    IF severity = "ERROR"
    THEN <<createError(instructionLine, range, <<>>, "JSON_IN_SINGLE_QUOTES", {})>>
    ELSE IF severity = "WARNING"
    THEN <<createWarning(instructionLine, range, <<>>, "JSON_IN_SINGLE_QUOTES", {})>>
    ELSE <<>>

(* A variant that ends the range one line too far. *)
createEmptyContinuationLine_LineTooFar(start, end, severity) ==
    IF severity = "ERROR"
    THEN <<createError(NoLine, Rng(start, Pos(end.line + 1, 0)), <<>>,
                       "EMPTY_CONTINUATION_LINE", {})>>
    ELSE IF severity = "WARNING"
    THEN <<createWarning(NoLine, Rng(start, Pos(end.line + 1, 0)), <<>>,
                         "EMPTY_CONTINUATION_LINE", {})>>
    ELSE <<>>

createEmptyContinuationLine(start, end, severity) ==
    IF severity = "ERROR"
    THEN <<createError(NoLine, Rng(start, end), <<>>, "EMPTY_CONTINUATION_LINE", {})>>
    ELSE IF severity = "WARNING"
    THEN <<createWarning(NoLine, Rng(start, end), <<>>, "EMPTY_CONTINUATION_LINE", {})>>
    ELSE <<>>

(* A variant that reports a warning unless the severity is ERROR. *)
createMultipleInstructions_NoIgnore(instructionLine, range, severity, instruction) ==
    IF severity = "ERROR"
    THEN <<createError(instructionLine, range, <<instruction>>,
                       "MULTIPLE_INSTRUCTIONS", {"Unnecessary"})>>
    ELSE <<createWarning(instructionLine, range, <<instruction>>,
                         "MULTIPLE_INSTRUCTIONS", {"Unnecessary"})>>

createMultipleInstructions(instructionLine, range, severity, instruction) ==
    IF severity = "ERROR"
    THEN <<createError(instructionLine, range, <<instruction>>,
                       "MULTIPLE_INSTRUCTIONS", {"Unnecessary"})>>
    ELSE IF severity = "WARNING"
    THEN <<createWarning(instructionLine, range, <<instruction>>,
                         "MULTIPLE_INSTRUCTIONS", {"Unnecessary"})>>
    ELSE <<>>

createLowercaseDirective(s, range) ==
    IF s["directiveCasing"] = "ERROR"
    THEN <<createError(NoLine, range, <<>>, "CASING_DIRECTIVE", {})>>
    ELSE IF s["directiveCasing"] = "WARNING"
    THEN <<createWarning(NoLine, range, <<>>, "CASING_DIRECTIVE", {})>>
    ELSE <<>>

(* A variant that reports nothing at severity ERROR. *)
createUppercaseInstruction_WarningOnly(s, instructionLine, range) ==
    IF s["instructionCasing"] = "WARNING"
    THEN <<createWarning(instructionLine, range, <<>>, "CASING_INSTRUCTION", {})>>
    ELSE <<>>

createUppercaseInstruction(s, instructionLine, range) ==
    IF s["instructionCasing"] = "ERROR"
    THEN <<createError(instructionLine, range, <<>>, "CASING_INSTRUCTION", {})>>
    ELSE IF s["instructionCasing"] = "WARNING"
    THEN <<createWarning(instructionLine, range, <<>>, "CASING_INSTRUCTION", {})>>
    ELSE <<>>

createMaintainerDeprecated(s, instructionLine, range) ==
    IF s["deprecatedMaintainer"] = "ERROR"
    THEN <<createError(instructionLine, range, <<>>, "DEPRECATED_MAINTAINER", {"Deprecated"})>>
    ELSE IF s["deprecatedMaintainer"] = "WARNING"
    THEN <<createWarning(instructionLine, range, <<>>, "DEPRECATED_MAINTAINER", {"Deprecated"})>>
    ELSE <<>>

(* A variant that reports an error unless the severity is WARNING. *)
createWORKDIRNotAbsolute_ErrorByDefault(s, instructionLine, range) ==
    IF s["instructionWorkdirRelative"] = "WARNING"
    THEN <<createWarning(instructionLine, range, <<>>, "WORKDIR_IS_NOT_ABSOLUTE", {})>>
    ELSE <<createError(instructionLine, range, <<>>, "WORKDIR_IS_NOT_ABSOLUTE", {})>>

createWORKDIRNotAbsolute(s, instructionLine, range) ==
    IF s["instructionWorkdirRelative"] = "ERROR"
    THEN <<createError(instructionLine, range, <<>>, "WORKDIR_IS_NOT_ABSOLUTE", {})>>
    ELSE IF s["instructionWorkdirRelative"] = "WARNING"
    THEN <<createWarning(instructionLine, range, <<>>, "WORKDIR_IS_NOT_ABSOLUTE", {})>>
    ELSE <<>>

createNoSourceImage(start, end) ==
    createError(NoLine, Rng(start, end), <<>>, "NO_SOURCE_IMAGE", {})

createUnknownInstruction(instructionLine, range, instruction) ==
    createError(instructionLine, range, <<instruction>>, "UNKNOWN_INSTRUCTION", {})

createMissingArgument(instructionLine, range) ==
    createError(instructionLine, range, <<>>, "ARGUMENT_MISSING", {})

(***************************************************************************)
(* checkDirectives                                                         *)
(***************************************************************************)
(* A variant that reports every escape directive of several. *)
checkDirectives_EveryDuplicate(doc, s) ==
    LET Duplicated(escapes) ==
          [i \in 1..Len(escapes) |->
              createError(NoLine,
                          Rng(escapes[i].nameRange.start, escapes[i].valueRange.end),
                          <<>>, "DUPLICATED_ESCAPE_DIRECTIVE", {"Unnecessary"})]
    IN Duplicated(SelectSeq(getDirectives(doc), LAMBDA d : d.directive = "escape"))

checkDirectives(doc, s) ==
    LET directives == getDirectives(doc)
        duplicatedEscapes == SelectSeq(directives, LAMBDA d : d.directive = "escape")
        One(d) ==
            IF d.directive = "escape"
            THEN (IF d.value # "\\" /\ d.value # Backtick /\ d.value # ""
                  THEN <<createError(NoLine, d.valueRange, <<d.value>>,
                                     "INVALID_ESCAPE_DIRECTIVE", {})>>
                  ELSE <<>>)
                 \o (IF d.name # "escape"
                     THEN createLowercaseDirective(s, d.nameRange)
                     ELSE <<>>)
            ELSE <<>>
        RECURSIVE All(_)
        All(k) == IF k > Len(directives) THEN <<>> ELSE One(directives[k]) \o All(k + 1)
    IN IF Len(duplicatedEscapes) > 1
       THEN [i \in 1..(Len(duplicatedEscapes) - 1) |->
               createError(NoLine,
                           Rng(duplicatedEscapes[i + 1].nameRange.start,
                               duplicatedEscapes[i + 1].valueRange.end),
                           <<>>, "DUPLICATED_ESCAPE_DIRECTIVE", {"Unnecessary"})]
       ELSE All(1)

(***************************************************************************)
(* checkArguments.  validate names the callback: it yields the            *)
(* diagnostics (none or one) for one argument.                             *)
(***************************************************************************)
KEYWORDS ==
    {"ADD", "ARG", "CMD", "COPY", "ENTRYPOINT", "ENV", "EXPOSE", "FROM",
     "HEALTHCHECK", "LABEL", "MAINTAINER", "ONBUILD", "RUN", "SHELL",
     "STOPSIGNAL", "USER", "VOLUME", "WORKDIR"}

NoCheck(index, value, range) == <<>>

StageNameChars == LowerSet \cup Digits \cup {"_", "-", "."}

(* The stage name pattern: a lower-case letter, then any number of        *)
(* lower-case letters, digits, underscores, hyphens and periods.          *)
MatchesStageName(name) ==
    /\ Len(name) >= 1
    /\ name[1] \in LowerSet
    /\ \A i \in 2..Len(name) : name[i] \in StageNameChars

(* The callback FROM hands to checkArguments. *)
FromArgument(ins, index, value, range) ==
    CASE index = 0 -> <<>>
      [] index = 1 ->
           IF toUpperCase(value) = <<"A", "S">> THEN <<>>
           ELSE <<createError(ins.kwRange.start.line, range, <<>>, "INVALID_AS", {})>>
      [] index = 2 ->
           IF MatchesStageName(toLowerCase(value)) THEN <<>>
           ELSE <<createError(ins.kwRange.start.line, range, <<>>,
                              "INVALID_BUILD_STAGE_NAME", {})>>
      [] OTHER -> <<>>

(* The callbacks handed to checkArguments, by name. *)
ArgumentCallback(validate, ins, index, value, range) ==
    IF validate = "FROM" THEN FromArgument(ins, index, value, range)
    ELSE NoCheck(index, value, range)

EachArgument(ins, validate) ==
    Flatten([j \in 1..Len(ins.args) |->
               ArgumentCallback(validate, ins, j - 1, ins.args[j].value, ins.args[j].range)])

checkArguments(ins, expectedArgCount, validate, incompleteCode) ==
    LET args == ins.args
    IN IF Len(args) = 0
       THEN (IF ins.keyword # "RUN"
             THEN <<createMissingArgument(ins.kwRange.start.line, ins.kwRange)>>
             ELSE <<>>)
       ELSE IF expectedArgCount[1] = -1
       THEN EachArgument(ins, validate)
       ELSE IF \E i \in 1..Len(expectedArgCount) : expectedArgCount[i] = Len(args)
       THEN EachArgument(ins, validate)
       ELSE <<createError(ins.kwRange.start.line, args[Len(args)].range, <<>>,
                          incompleteCode, {})>>

(***************************************************************************)
(* Instruction.getArgumentsContent and getArgumentsRange.                  *)
(***************************************************************************)
RECURSIVE JoinArgs(_)
JoinArgs(args) ==
    IF args = <<>> THEN <<>>
    ELSE IF Len(args) = 1 THEN args[1].value
    ELSE args[1].value \o <<" ">> \o JoinArgs(Tail(args))

(* A variant that yields the first argument only. *)
getArgumentsContent_FirstArgument(ins) == ins.args[1].value

getArgumentsContent(ins) == JoinArgs(ins.args)

getArgumentsRange(ins) == Rng(ins.args[1].range.start, ins.args[Len(ins.args)].range.end)

(***************************************************************************)
(* checkJSONQuotes: the scan over the arguments' text.  JsonScan is the    *)
(* loop; it is TRUE when the loop reaches the closing bracket of a list of *)
(* single-quoted strings.                                                  *)
(***************************************************************************)
RECURSIVE JsonScan(_, _, _, _, _)
JsonScan(argsContent, i, last, jsonLike, quoted) ==
    IF i > Len(argsContent) THEN FALSE
    ELSE LET c == argsContent[i]
         IN CASE c = "[" ->
                   IF last = "null"
                   THEN JsonScan(argsContent, i + 1, "[", TRUE, quoted)
                   ELSE JsonScan(argsContent, i + 1, last, jsonLike, quoted)
              [] c = "'" ->
                   IF last = "[" \/ last = ","
                   THEN JsonScan(argsContent, i + 1, "'", jsonLike, TRUE)
                   ELSE IF last = "'" /\ quoted
                   THEN JsonScan(argsContent, i + 1, last, jsonLike, FALSE)
                   ELSE FALSE
              [] c = "," ->
                   IF ~jsonLike THEN FALSE
                   ELSE IF ~quoted
                   THEN (IF last = "'"
                         THEN JsonScan(argsContent, i + 1, ",", jsonLike, quoted)
                         ELSE FALSE)
                   ELSE JsonScan(argsContent, i + 1, last, jsonLike, quoted)
              [] c = "]" ->
                   IF ~quoted THEN (last = "'" \/ last = ",")
                   ELSE JsonScan(argsContent, i + 1, last, jsonLike, quoted)
              [] c = " " \/ c = "\t" ->
                   JsonScan(argsContent, i + 1, last, jsonLike, quoted)
              [] OTHER ->
                   IF ~quoted THEN FALSE
                   ELSE JsonScan(argsContent, i + 1, last, jsonLike, quoted)

checkJSONQuotes(ins, s) ==
    LET args == ins.args
    IN IF Len(args) = 0 THEN <<>>
       ELSE IF (Len(args) = 1 /\ args[1].value = <<"[", "]">>)
                \/ (Len(args) = 2 /\ args[1].value = <<"[">> /\ args[2].value = <<"]">>)
       THEN <<>>
       ELSE IF JsonScan(getArgumentsContent(ins), 1, "null", FALSE, FALSE)
       THEN createJSONInSingleQuotes(ins.kwRange.start.line, getArgumentsRange(ins),
                                     s["instructionJSONInSingleQuotes"])
       ELSE <<>>

(***************************************************************************)
(* The empty continuation line check of validateInstruction.               *)
(* getHeredocLines lists the lines of the heredoc content ranges of a COPY *)
(* or RUN instruction; any other instruction has none.                     *)
(***************************************************************************)
HeredocContent == {"content", "blankContent"}

getHeredocLines_NoHeredocs(ins) == <<>>

getHeredocLines(ins) ==
    IF ins.keyword \in {"COPY", "RUN"}
    THEN SelectSeq([k \in 1..Len(ins.cont) |->
                        IF ins.cont[k] \in HeredocContent THEN ins.line + k ELSE NoLine],
                   LAMBDA l : l # NoLine)
    ELSE <<>>

(* content.substring(offsetAt(i, 0), offsetAt(i + 1, 0)).trim().length === 0 *)
IsBlankLine(ins, i) == i > ins.line /\ ins.cont[i - ins.line] \in {"blank", "blankContent"}

RECURSIVE EmptyLineScan(_, _, _, _, _)
EmptyLineScan(ins, i, start, skipped, severity) ==
    IF i > ins.endLine
    THEN (IF start # -1
          THEN createEmptyContinuationLine(Pos(start, 0), Pos(ins.endLine + 1, 0), severity)
          ELSE <<>>)
    ELSE IF skipped # <<>> /\ i = Head(skipped)
    THEN EmptyLineScan(ins, i + 1, start, Tail(skipped), severity)
    ELSE IF IsBlankLine(ins, i)
    THEN EmptyLineScan(ins, i + 1, IF start = -1 THEN i ELSE start, skipped, severity)
    ELSE IF start # -1
    THEN createEmptyContinuationLine(Pos(start, 0), Pos(i, 0), severity)
           \o EmptyLineScan(ins, i + 1, -1, skipped, severity)
    ELSE EmptyLineScan(ins, i + 1, start, skipped, severity)

checkEmptyContinuationLines(ins, isTrigger, s) ==
    IF ins.line # ins.endLine /\ ~isTrigger
    THEN EmptyLineScan(ins, ins.line, -1, getHeredocLines(ins), s["emptyContinuationLine"])
    ELSE <<>>

(***************************************************************************)
(* validateInstruction.  The branches are those of the keywords this model *)
(* draws: FROM, ARG, CMD, ENTRYPOINT, RUN, VOLUME, HEALTHCHECK, ONBUILD,   *)
(* WORKDIR, MAINTAINER, USER, ADD and COPY, and any unknown keyword.       *)
(* Image arguments carry no tag, digest or variable, ARG arguments no      *)
(* value, and only HEALTHCHECK, ADD and COPY have flags.                   *)
(***************************************************************************)
checkFlagValue(instructionLine, flags, validFlagNames) ==
    Flatten([k \in 1..Len(flags) |->
                IF flags[k].null /\ flags[k].name \in validFlagNames
                THEN <<createError(instructionLine, flags[k].nameRange,
                                   <<flags[k].name>>, "FLAG_MISSING_VALUE", {})>>
                ELSE <<>>])

(* One millisecond, in the tenths of a nanosecond durations are counted in. *)
OneMillisecond == 10000000

(* A number is not-a-number, or a sign and a count of tenths.  parseFloat  *)
(* reads an optional sign, digits, and a period with more digits; of the   *)
(* latter the first is kept, the texts of this model having no more.  A    *)
(* whole part of a millisecond's worth of tenths or more is not counted    *)
(* further: every unit makes it a millisecond or more.                     *)
parseFloat(string) ==
    LET DigitValue(c) == CHOOSE n \in 0..9 : <<"0","1","2","3","4","5","6","7","8","9">>[n + 1] = c
        negative == string # <<>> /\ string[1] = "-"
        from == IF negative THEN 2 ELSE 1
        RECURSIVE DigitsEnd(_)
        DigitsEnd(i) == IF i <= Len(string) /\ string[i] \in Digits
                        THEN DigitsEnd(i + 1) ELSE i
        RECURSIVE Whole(_, _)
        Whole(i, n) == IF i >= DigitsEnd(from) THEN n
                       ELSE IF n >= OneMillisecond THEN Whole(i + 1, n)
                       ELSE Whole(i + 1, n * 10 + DigitValue(string[i]))
        dot == DigitsEnd(from)
        hasFraction == /\ dot <= Len(string)
                       /\ string[dot] = "."
                       /\ DigitsEnd(dot + 1) > dot + 1
    IN  IF dot = from /\ ~hasFraction
        THEN [nan |-> TRUE, negative |-> FALSE, tenths |-> 0]
        ELSE [nan |-> FALSE, negative |-> negative,
              tenths |-> Whole(from, 0) * 10
                           + (IF hasFraction THEN DigitValue(string[dot + 1]) ELSE 0)]

(* parseInt(string) with no radix: an optional sign, then 0x or 0X and     *)
(* hexadecimal digits, or else decimal digits; what follows the digits is  *)
(* not read, and with no digit the result is not-a-number.  Of the number  *)
(* only its comparison with 1 is read, so that any number from 1 up is     *)
(* kept as 1.                                                              *)
parseInt(string) ==
    LET HexDigits == Digits \cup {"a", "b", "c", "d", "e", "f", "A", "B", "C", "D", "E", "F"}
        Signed(from) ==
            LET hex == /\ from + 1 <= Len(string)
                       /\ string[from] = "0" /\ string[from + 1] \in {"x", "X"}
                first == IF hex THEN from + 2 ELSE from
                IsDigit(i) == string[i] \in (IF hex THEN HexDigits ELSE Digits)
                RECURSIVE AtLeastOne(_)
                AtLeastOne(i) ==
                    IF i > Len(string) \/ ~IsDigit(i) THEN FALSE
                    ELSE IF string[i] # "0" THEN TRUE
                    ELSE AtLeastOne(i + 1)
            IN [nan |-> first > Len(string) \/ ~IsDigit(first),
                negative |-> from = 2,
                number |-> IF AtLeastOne(first) THEN 1 ELSE 0]
    IN Signed(IF string # <<>> /\ string[1] \in {"-", "+"} THEN 2 ELSE 1)

DurationUnits ==
    {<<"h">>, <<"m">>, <<"s">>, <<"m", "s">>, <<"u", "s">>, <<"µ", "s">>, <<"n", "s">>}

(* The milliseconds a time in the given unit adds to the duration.  Only   *)
(* the comparison with one millisecond reads the sum, so that anything     *)
(* from one millisecond up counts as one millisecond.                      *)
toMilliseconds_MicrosecondsAsMilliseconds(time, unit) ==
    LET Times(a, b) == IF a = 0 THEN 0
                       ELSE IF a >= OneMillisecond \/ b > OneMillisecond \div a
                       THEN OneMillisecond
                       ELSE a * b
        milliseconds == Times(time.tenths, 1000000)
    IN  IF time.nan THEN [nan |-> TRUE, amount |-> 0]
        ELSE [nan |-> FALSE,
              amount |->
                 CASE unit = <<"h">> -> Times(Times(Times(milliseconds, 1000), 60), 60)
                   [] unit = <<"m">> -> Times(Times(milliseconds, 1000), 60)
                   [] unit = <<"s">> -> Times(milliseconds, 1000)
                   [] unit = <<"m", "s">> -> milliseconds
                   [] unit \in {<<"u", "s">>, <<"µ", "s">>} -> milliseconds
                   [] unit = <<"n", "s">> -> Times(time.tenths, 1)]

toMilliseconds(time, unit) ==
    LET Times(a, b) == IF a = 0 THEN 0
                       ELSE IF a >= OneMillisecond \/ b > OneMillisecond \div a
                       THEN OneMillisecond
                       ELSE a * b
        milliseconds == Times(time.tenths, 1000000)
    IN  IF time.nan THEN [nan |-> TRUE, amount |-> 0]
        ELSE [nan |-> FALSE,
              amount |->
                 CASE unit = <<"h">> -> Times(Times(Times(milliseconds, 1000), 60), 60)
                   [] unit = <<"m">> -> Times(Times(milliseconds, 1000), 60)
                   [] unit = <<"s">> -> Times(milliseconds, 1000)
                   [] unit = <<"m", "s">> -> milliseconds
                   [] unit \in {<<"u", "s">>, <<"µ", "s">>} -> Times(time.tenths, 1000)
                   [] unit = <<"n", "s">> -> Times(time.tenths, 1)]

checkFlagDuration(instructionLine, flags, validFlagNames) ==
    LET isNumberRelated(character) == character \in Digits \cup {"."}
        Plus(duration, added) ==
            IF duration.nan \/ added.nan THEN [nan |-> TRUE, amount |-> 0]
            ELSE [nan |-> FALSE,
                  amount |-> IF duration.amount >= OneMillisecond - added.amount
                             THEN OneMillisecond
                             ELSE duration.amount + added.amount]
        Problem(flag, code) ==
            IF code = "FLAG_LESS_THAN_1MS"
            THEN <<createError(instructionLine, flag.nameRange, <<flag.name>>, code, {})>>
            ELSE <<createError(instructionLine, flag.valueRange, flag.value, code, {})>>
        IsNegative(value, start, time) ==
            \/ ~time.nan /\ time.negative /\ time.tenths > 0
            \/ value[start + 1] = "-" /\ ~time.nan /\ time.tenths = 0
        RECURSIVE NextNumber(_, _)
        NextNumber(value, j) ==
            IF j >= Len(value) THEN -1
            ELSE IF isNumberRelated(value[j + 1]) THEN j
            ELSE NextNumber(value, j + 1)
        TooShort(flag, duration) ==
            IF ~duration.nan /\ duration.amount < OneMillisecond
            THEN Problem(flag, "FLAG_LESS_THAN_1MS")
            ELSE <<>>
        RECURSIVE Parse(_, _, _, _, _, _, _, _)
        Parse(flag, i, start, duration, durationSpecified, digitFound, hyphenFound,
              periodsDetected) ==
            LET value == flag.value IN
            IF i >= Len(value)
            THEN IF ~durationSpecified THEN Problem(flag, "FLAG_MISSING_DURATION")
                 ELSE TooShort(flag, duration)
            (* every turn of the loop begins with durationSpecified = false *)
            ELSE IF value[i + 1] = "-"
            THEN IF digitFound THEN Problem(flag, "FLAG_UNKNOWN_UNIT")
                 ELSE IF hyphenFound THEN Problem(flag, "FLAG_INVALID_DURATION")
                 ELSE Parse(flag, i + 1, start, duration, durationSpecified, digitFound,
                            TRUE, periodsDetected)
            ELSE IF value[i + 1] = "."
            THEN Parse(flag, i + 1, start, duration, durationSpecified, digitFound,
                       hyphenFound, periodsDetected + 1)
            ELSE IF value[i + 1] \in Digits
            THEN Parse(flag, i + 1, start, duration, durationSpecified, TRUE,
                       hyphenFound, periodsDetected)
            ELSE IF periodsDetected > 1 THEN Problem(flag, "FLAG_MISSING_DURATION")
            ELSE LET time == parseFloat(SubSeq(value, start + 1, i))
                     j == NextNumber(value, i + 1)
                     unit == SubSeq(value, i + 1, IF j = -1 THEN Len(value) ELSE j)
                 IN  IF IsNegative(value, start, time)
                     THEN Problem(flag, "FLAG_LESS_THAN_1MS")
                     ELSE IF unit \notin DurationUnits
                     THEN Problem(flag, "FLAG_UNKNOWN_UNIT")
                     ELSE IF j # -1
                     THEN Parse(flag, j, j - 1, Plus(duration, toMilliseconds(time, unit)),
                                FALSE, digitFound, hyphenFound, 0)
                     ELSE TooShort(flag, Plus(duration, toMilliseconds(time, unit)))
        Check(flag) ==
            IF flag.name \notin validFlagNames \/ flag.null \/ flag.value = <<>>
            THEN <<>>
            ELSE IF flag.value[1] \notin Digits \cup {".", "-"}
            THEN Problem(flag, "FLAG_INVALID_DURATION")
            ELSE Parse(flag, 0, 0, [nan |-> FALSE, amount |-> 0], FALSE, FALSE, FALSE, 0)
    IN  Flatten([k \in 1..Len(flags) |-> Check(flags[k])])

checkDuplicateFlags(instructionLine, flags, validFlags) ==
    LET Indexes(name) == {k \in 1..Len(flags) : flags[k].name = name}
        Min(S) == CHOOSE k \in S : \A m \in S : k <= m
        Max(S) == CHOOSE k \in S : \A m \in S : k >= m
    IN  Flatten([v \in 1..Len(validFlags) |->
                    IF Cardinality(Indexes(validFlags[v])) > 1
                    THEN <<createError(instructionLine,
                                       flags[Min(Indexes(validFlags[v]))].nameRange,
                                       <<validFlags[v]>>, "FLAG_DUPLICATE", {}),
                           createError(instructionLine,
                                       flags[Max(Indexes(validFlags[v]))].nameRange,
                                       <<validFlags[v]>>, "FLAG_DUPLICATE", {})>>
                    ELSE <<>>])

validateHealthcheck(ins) ==
    LET args == ins.args
        line == ins.kwRange.start.line
        validFlags == <<"interval", "retries", "start-period", "timeout", "start-interval">>
        IsValid(name) == \E v \in 1..Len(validFlags) : validFlags[v] = name
        isNone == /\ Len(args) > 0
                  /\ toUpperCase(args[1].value) = <<"N", "O", "N", "E">>
        integer(value) == parseInt(value)
        Retries(flag) ==
            IF flag.null \/ flag.value = <<>> THEN <<>>
            ELSE IF integer(flag.value).nan \/ (\E i \in 1..Len(flag.value) : flag.value[i] = ".")
            THEN <<createError(line, flag.valueRange, flag.value, "INVALID_SYNTAX", {})>>
            ELSE IF integer(flag.value).negative \/ integer(flag.value).number < 1
            THEN <<createError(line, flag.valueRange, flag.value, "FLAG_AT_LEAST_ONE", {})>>
            ELSE <<>>
        Named(flag) ==
            IF ~IsValid(flag.name)
            THEN <<createError(line,
                               Rng(flag.range.start,
                                   IF flag.name = "" THEN flag.range.end
                                   ELSE flag.nameRange.end),
                               <<flag.name>>, "UNKNOWN_HEALTHCHECK_FLAG", {})>>
            ELSE IF flag.name = "retries" THEN Retries(flag)
            ELSE <<>>
    IN (IF Len(args) = 0
        THEN <<createError(line, ins.kwRange, <<>>, "ARGUMENT_REQUIRES_AT_LEAST_ONE", {})>>
        ELSE LET uppercase == toUpperCase(args[1].value)
             IN IF uppercase = <<"N", "O", "N", "E">>
                THEN (IF Len(args) > 1
                      THEN <<createError(line,
                                         Rng(args[2].range.start, args[Len(args)].range.end),
                                         <<>>, "ARGUMENT_UNNECESSARY", {})>>
                      ELSE <<>>)
                ELSE IF uppercase = <<"C", "M", "D">>
                THEN (IF Len(args) = 1
                      THEN <<createError(line, args[1].range, <<>>,
                                         "HEALTHCHECK_CMD_ARGUMENT_MISSING", {})>>
                      ELSE <<>>)
                ELSE <<createError(line, args[1].range, <<>>, "UNKNOWN_TYPE", {})>>)
       \o (IF isNone THEN <<>>
           ELSE Flatten([k \in 1..Len(ins.flags) |-> Named(ins.flags[k])])
                  \o checkFlagValue(line, ins.flags,
                                    {validFlags[v] : v \in 1..Len(validFlags)})
                  \o checkFlagDuration(line, ins.flags,
                                       {"interval", "start-period", "timeout", "start-interval"})
                  \o checkDuplicateFlags(line, ins.flags, validFlags))

(* A variant that reports chaining as a disallowed trigger. *)
validateOnbuild_ChainingAsTrigger(ins) ==
    checkArguments(ins, <<-1>>, "none", "ARGUMENT_EXTRA")
      \o (IF ins.hasTrigger /\ ins.trigger \in {"FROM", "MAINTAINER", "ONBUILD"}
          THEN <<createError(ins.kwRange.start.line, ins.triggerRange, <<ins.trigger>>,
                             "ONBUILD_TRIGGER_DISALLOWED", {})>>
          ELSE <<>>)

validateOnbuild(ins) ==
    checkArguments(ins, <<-1>>, "none", "ARGUMENT_EXTRA")
      \o (IF ins.hasTrigger /\ ins.trigger \in {"FROM", "MAINTAINER"}
          THEN <<createError(ins.kwRange.start.line, ins.triggerRange, <<ins.trigger>>,
                             "ONBUILD_TRIGGER_DISALLOWED", {})>>
          ELSE IF ins.hasTrigger /\ ins.trigger = "ONBUILD"
          THEN <<createError(ins.kwRange.start.line, ins.triggerRange, <<>>,
                             "ONBUILD_CHAINING_DISALLOWED", {})>>
          ELSE <<>>)

Letters == LowerSet \cup UpperSet

(* The WORKDIR pattern: a dollar sign, or a letter followed by a dollar   *)
(* sign or by a colon and one of dollar sign, backslash, slash.            *)
MatchesWorkdirPattern(content) ==
    /\ Len(content) >= 1
    /\ \/ content[1] = "$"
       \/ /\ content[1] \in Letters
          /\ Len(content) >= 2
          /\ \/ content[2] = "$"
             \/ /\ content[2] = ":"
                /\ Len(content) >= 3
                /\ content[3] \in {"$", "\\", "/"}

validateWorkdir(ins, s) ==
    checkArguments(ins, <<-1>>, "none", "ARGUMENT_EXTRA")
      \o (IF ins.args = <<>> THEN <<>>
          ELSE LET raw   == getArgumentsContent(ins)
                   first == raw[1]
                   last  == raw[Len(raw)]
                   content ==
                       IF ((first = "'" /\ last = "'") \/ (first = "\"" /\ last = "\""))
                          /\ Len(raw) >= 2
                       THEN SubSeq(raw, 2, Len(raw) - 1)
                       ELSE raw
               IN IF ~(Len(content) >= 1 /\ content[1] = "/")
                     /\ ~MatchesWorkdirPattern(content)
                  THEN createWORKDIRNotAbsolute(s, ins.kwRange.start.line,
                                                getArgumentsRange(ins))
                  ELSE <<>>)

(***************************************************************************)
(* this.document: the offsets of the lines of the document's text, the     *)
(* lines being joined by "\n", and the length of the text.                 *)
(***************************************************************************)
TextDocument(doc) ==
    LET widths == LineWidths(doc)
        RECURSIVE Offset(_)
        Offset(l) == IF l = 1 THEN 0 ELSE Offset(l - 1) + widths[l - 1] + 1
    IN  IF doc = <<>> THEN [lineOffsets |-> <<0>>, length |-> 0]
        ELSE [lineOffsets |-> [l \in 1..Len(widths) |-> Offset(l)],
              length |-> Offset(Len(widths)) + widths[Len(widths)]]

TextDocument_offsetAt(textDocument, position) ==
    LET lineOffsets == textDocument.lineOffsets IN
    IF position.line >= Len(lineOffsets) THEN textDocument.length
    ELSE IF position.line < 0 THEN 0
    ELSE LET lineOffset == lineOffsets[position.line + 1]
             nextLineOffset == IF position.line + 1 < Len(lineOffsets)
                               THEN lineOffsets[position.line + 2]
                               ELSE textDocument.length
             at == lineOffset + position.character
         IN  IF at > nextLineOffset THEN nextLineOffset
             ELSE IF at < lineOffset THEN lineOffset
             ELSE at

TextDocument_positionAt(textDocument, offset) ==
    LET lineOffsets == textDocument.lineOffsets
        clamped == IF offset > textDocument.length THEN textDocument.length
                   ELSE IF offset < 0 THEN 0 ELSE offset
        line == CHOOSE l \in 1..Len(lineOffsets) :
                   /\ lineOffsets[l] <= clamped
                   /\ \A m \in 1..Len(lineOffsets) :
                         lineOffsets[m] <= clamped => m <= l
    IN  Pos(line - 1, clamped - lineOffsets[line])

(***************************************************************************)
(* The EXPOSE branch of validateInstruction.  No argument of this model    *)
(* holds a variable, a quote or an escape character, so the expanded       *)
(* arguments are the arguments and an argument's text is its value.        *)
(***************************************************************************)
(* regex.exec(value) for the port pattern: digits, an optional hyphen and  *)
(* digits, an optional colon and digits with an optional hyphen and        *)
(* digits, an optional slash and word characters (capture group 7), then   *)
(* any number of slashes with word characters.  It yields whether the      *)
(* value matches, and capture group 7.  The value is read character by     *)
(* character; `at` is the part of the pattern the reading is in, `from`    *)
(* the index of the slash before group 7.                                  *)
RECURSIVE ExposeRegexExec_Read(_, _, _, _)
ExposeRegexExec_Read(value, i, at, from) ==
    LET c == value[i]
        digit == c \in Digits
        word == c \in LowerSet \cup UpperSet \cup Digits \cup {"_"}
        NoMatch == [match |-> FALSE, protocol |-> <<>>]
        Then(next) == ExposeRegexExec_Read(value, i + 1, next, from)
    IN  IF i > Len(value)
        THEN IF at \in {"port", "portTo", "container", "containerTo", "rest"}
             THEN [match |-> TRUE, protocol |-> <<>>]
             ELSE IF at = "protocol"
             THEN [match |-> TRUE, protocol |-> SubSeq(value, from + 1, Len(value))]
             ELSE NoMatch
        ELSE CASE at = "start" -> IF digit THEN Then("port") ELSE NoMatch
               [] at = "port" ->
                    IF digit THEN Then("port")
                    ELSE IF c = "-" THEN Then("portHyphen")
                    ELSE IF c = ":" THEN Then("colon")
                    ELSE IF c = "/" THEN ExposeRegexExec_Read(value, i + 1, "protocol", i)
                    ELSE NoMatch
               [] at = "portHyphen" -> IF digit THEN Then("portTo") ELSE NoMatch
               [] at = "portTo" ->
                    IF digit THEN Then("portTo")
                    ELSE IF c = ":" THEN Then("colon")
                    ELSE IF c = "/" THEN ExposeRegexExec_Read(value, i + 1, "protocol", i)
                    ELSE NoMatch
               [] at = "colon" -> IF digit THEN Then("container") ELSE NoMatch
               [] at = "container" ->
                    IF digit THEN Then("container")
                    ELSE IF c = "-" THEN Then("containerTo")
                    ELSE IF c = "/" THEN ExposeRegexExec_Read(value, i + 1, "protocol", i)
                    ELSE NoMatch
               [] at = "containerTo" ->
                    IF digit THEN Then("containerTo")
                    ELSE IF c = "/" THEN ExposeRegexExec_Read(value, i + 1, "protocol", i)
                    ELSE NoMatch
               [] at = "protocol" ->
                    IF word THEN Then("protocol")
                    ELSE IF c = "/"
                    THEN [ExposeRegexExec_Read(value, i + 1, "rest", from)
                            EXCEPT !.protocol = SubSeq(value, from + 1, i - 1)]
                    ELSE NoMatch
               [] at = "rest" -> IF word \/ c = "/" THEN Then("rest") ELSE NoMatch

ExposeRegexExec(value) == ExposeRegexExec_Read(value, 1, "start", 0)

createInvalidProto(instructionLine, start, end, protocol) ==
    <<createError(instructionLine, Rng(start, end), protocol, "INVALID_PROTO", {})>>

validateExpose(doc, ins) ==
    LET exposeExpandedArgs == ins.args
        textDocument == TextDocument(doc)
        indexOf(string, character) ==
            (CHOOSE i \in 1..Len(string) :
                /\ string[i] = character
                /\ \A k \in 1..(i - 1) : string[k] # character) - 1
        Check(arg) ==
            LET value == arg.value
                match == ExposeRegexExec(value)
                protocol == toLowerCase(match.protocol)
                rangeStart == TextDocument_offsetAt(textDocument, arg.range.start)
                rawArg == value
                start == rangeStart + indexOf(rawArg, match.protocol[1])
                end == IF Len(protocol) = 1 THEN rangeStart + start + 1
                       ELSE rangeStart + Len(rawArg)
            IN  IF match.match
                THEN IF match.protocol # <<>>
                        /\ protocol \notin {<<"t", "c", "p">>, <<"u", "d", "p">>,
                                            <<"s", "c", "t", "p">>}
                     THEN createInvalidProto(ins.kwRange.start.line,
                              TextDocument_positionAt(textDocument, start),
                              TextDocument_positionAt(textDocument, end),
                              match.protocol)
                     ELSE <<>>
                ELSE IF value # <<>> /\ value[1] = "$" THEN <<>>
                ELSE <<createError(ins.kwRange.start.line, arg.range, value,
                                   "INVALID_PORT", {})>>
    IN  IF Len(exposeExpandedArgs) = 0
        THEN <<createMissingArgument(ins.kwRange.start.line, ins.kwRange)>>
        ELSE Flatten([i \in 1..Len(exposeExpandedArgs) |-> Check(exposeExpandedArgs[i])])

(* checkFlagBoolean: a boolean flag has no value, or true or false in any   *)
(* casing.                                                                 *)
checkFlagBoolean(instructionLine, flag) ==
    IF ~flag.null /\ flag.value = <<>>
    THEN <<createError(instructionLine, flag.nameRange, <<flag.name>>,
                       "FLAG_MISSING_VALUE", {})>>
    ELSE IF ~flag.null
            /\ toLowerCase(flag.value) \notin {<<"t", "r", "u", "e">>,
                                               <<"f", "a", "l", "s", "e">>}
    THEN <<createError(instructionLine, flag.valueRange, <<flag.name>> \o flag.value,
                       "FLAG_EXPECTED_BOOLEAN_VALUE", {})>>
    ELSE <<>>

(* checkDestinationIsDirectory for arguments that are not in JSON form and *)
(* hold no heredoc and no variable.                                        *)
checkDestinationIsDirectory(ins) ==
    LET args == ins.args
        line == ins.kwRange.start.line
        lastArg == args[Len(args)]
    IN  IF Len(args) = 1
        THEN <<createError(line, args[1].range, <<>>, "ARGUMENT_REQUIRES_AT_LEAST_TWO", {})>>
        ELSE IF Len(args) = 0
        THEN <<createError(line, ins.kwRange, <<>>, "ARGUMENT_REQUIRES_AT_LEAST_TWO", {})>>
        ELSE IF Len(args) > 2 /\ lastArg.value[Len(lastArg.value)] \notin {"\\", "/"}
        THEN <<createError(line, lastArg.range, <<>>, "INVALID_DESTINATION", {})>>
        ELSE <<>>

(* validateInstruction, case "ADD" *)
validateAdd(ins, s) ==
    LET line == ins.kwRange.start.line
        Named(flag) ==
            IF flag.name = ""
            THEN <<createError(line, flag.range, <<flag.name>>, "UNKNOWN_ADD_FLAG", {})>>
            ELSE IF flag.name \in {"link", "keep-git-dir"}
            THEN checkFlagBoolean(line, flag)
            ELSE IF flag.name \notin {"chmod", "chown", "checksum"}
            THEN <<createError(line, Rng(flag.range.start, flag.nameRange.end),
                               <<flag.name>>, "UNKNOWN_ADD_FLAG", {})>>
            ELSE <<>>
    IN  Flatten([k \in 1..Len(ins.flags) |-> Named(ins.flags[k])])
          \o checkDestinationIsDirectory(ins)
          \o checkFlagValue(line, ins.flags, {"chmod", "chown", "checksum"})
          \o checkDuplicateFlags(line, ins.flags,
                                 <<"chmod", "chown", "checksum", "keep-git-dir", "link">>)
          \o checkJSONQuotes(ins, s)

(* validateInstruction, case "COPY"; getFromFlag is the first flag named   *)
(* from.                                                                   *)
validateCopy(ins, s) ==
    LET line == ins.kwRange.start.line
        flags == ins.flags
        Named(flag) ==
            IF flag.name = ""
            THEN <<createError(line, flag.range, <<flag.name>>, "UNKNOWN_COPY_FLAG", {})>>
            ELSE IF flag.name = "link"
            THEN checkFlagBoolean(line, flag)
            ELSE IF flag.name \notin {"chmod", "chown", "from"}
            THEN <<createError(line, Rng(flag.range.start, flag.nameRange.end),
                               <<flag.name>>, "UNKNOWN_COPY_FLAG", {})>>
            ELSE <<>>
        Froms == {k \in 1..Len(flags) : flags[k].name = "from"}
        From(flag) ==
            IF ~flag.null
               /\ (IF flag.value = <<>> THEN TRUE
                   ELSE flag.value[1] \notin (Letters \cup Digits))
            THEN <<createError(line,
                               IF flag.value = <<>> THEN flag.range ELSE flag.valueRange,
                               flag.value, "FLAG_INVALID_FROM_VALUE", {})>>
            ELSE <<>>
    IN  Flatten([k \in 1..Len(flags) |-> Named(flags[k])])
          \o (IF Froms # {}
              THEN From(flags[CHOOSE k \in Froms : \A m \in Froms : k <= m])
              ELSE <<>>)
          \o checkDestinationIsDirectory(ins)
          \o checkFlagValue(line, flags, {"chmod", "chown", "from"})
          \o checkDuplicateFlags(line, flags, <<"chmod", "chown", "from", "link">>)
          \o checkJSONQuotes(ins, s)

validateKeyword(doc, ins, s) ==
    CASE ins.keyword = "CMD" -> checkJSONQuotes(ins, s)
      [] ins.keyword \in {"ENTRYPOINT", "RUN", "VOLUME"} ->
           checkArguments(ins, <<-1>>, "none", "ARGUMENT_EXTRA") \o checkJSONQuotes(ins, s)
      [] ins.keyword = "ARG" -> checkArguments(ins, <<-1>>, "none", "ARGUMENT_EXTRA")
      [] ins.keyword = "FROM" ->
           checkArguments(ins, <<1, 3>>, "FROM", "ARGUMENT_REQUIRES_ONE_OR_THREE")
      [] ins.keyword = "HEALTHCHECK" -> validateHealthcheck(ins)
      [] ins.keyword = "EXPOSE" -> validateExpose(doc, ins)
      [] ins.keyword = "ADD" -> validateAdd(ins, s)
      [] ins.keyword = "COPY" -> validateCopy(ins, s)
      [] ins.keyword = "ONBUILD" -> validateOnbuild(ins)
      [] ins.keyword = "WORKDIR" -> validateWorkdir(ins, s)
      [] ins.keyword \in {"MAINTAINER", "USER"} ->
           checkArguments(ins, <<-1>>, "none", "ARGUMENT_EXTRA")

(* A variant that checks the casing of the keyword before anything else. *)
validateInstruction_CasingFirst(doc, ins, isTrigger, s) ==
    (IF ins.keyword # ins.instruction
     THEN createUppercaseInstruction(s, ins.kwRange.start.line, ins.kwRange)
     ELSE <<>>)
    \o (IF ins.keyword \notin KEYWORDS
        THEN <<createUnknownInstruction(ins.kwRange.start.line, ins.kwRange, ins.keyword)>>
        ELSE (IF ins.keyword = "MAINTAINER"
              THEN createMaintainerDeprecated(s, ins.kwRange.start.line, ins.kwRange)
              ELSE <<>>)
             \o checkEmptyContinuationLines(ins, isTrigger, s)
             \o validateKeyword(doc, ins, s))

validateInstruction(doc, ins, isTrigger, s) ==
    IF ins.keyword \notin KEYWORDS
    THEN <<createUnknownInstruction(ins.kwRange.start.line, ins.kwRange, ins.keyword)>>
    ELSE (IF ins.keyword # ins.instruction
          THEN createUppercaseInstruction(s, ins.kwRange.start.line, ins.kwRange)
          ELSE <<>>)
         \o (IF ins.keyword = "MAINTAINER"
             THEN createMaintainerDeprecated(s, ins.kwRange.start.line, ins.kwRange)
             ELSE <<>>)
         \o checkEmptyContinuationLines(ins, isTrigger, s)
         \o validateKeyword(doc, ins, s)

(***************************************************************************)
(* Multiple CMD, ENTRYPOINT and HEALTHCHECK instructions per build stage.  *)
(***************************************************************************)
createDuplicatesDiagnostics(severity, instruction, instructions) ==
    IF Len(instructions) > 1
    THEN Flatten([i \in 1..(Len(instructions) - 1) |->
                    createMultipleInstructions(instructions[i].kwRange.start.line,
                                               instructions[i].kwRange,
                                               severity, instruction)])
    ELSE <<>>

FlushDuplicates(s, cmds, entrypoints, healthchecks) ==
    createDuplicatesDiagnostics(s["instructionCmdMultiple"], "CMD", cmds)
      \o createDuplicatesDiagnostics(s["instructionEntrypointMultiple"],
                                     "ENTRYPOINT", entrypoints)
      \o createDuplicatesDiagnostics(s["instructionHealthcheckMultiple"],
                                     "HEALTHCHECK", healthchecks)

(* The first loop of validate over the instructions, and the flush after it. *)
RECURSIVE MultiplesLoop(_, _, _, _, _, _)
MultiplesLoop(instructions, k, s, cmds, entrypoints, healthchecks) ==
    IF k > Len(instructions)
    THEN FlushDuplicates(s, cmds, entrypoints, healthchecks)
    ELSE LET ins == instructions[k]
         IN CASE ins.keyword = "CMD" ->
                   MultiplesLoop(instructions, k + 1, s, Append(cmds, ins),
                                 entrypoints, healthchecks)
              [] ins.keyword = "ENTRYPOINT" ->
                   MultiplesLoop(instructions, k + 1, s, cmds,
                                 Append(entrypoints, ins), healthchecks)
              [] ins.keyword = "HEALTHCHECK" ->
                   MultiplesLoop(instructions, k + 1, s, cmds, entrypoints,
                                 Append(healthchecks, ins))
              [] ins.keyword = "FROM" ->
                   FlushDuplicates(s, cmds, entrypoints, healthchecks)
                     \o MultiplesLoop(instructions, k + 1, s, <<>>, <<>>, <<>>)
              [] OTHER ->
                   MultiplesLoop(instructions, k + 1, s, cmds, entrypoints, healthchecks)

(***************************************************************************)
(* Duplicate build stage names.  The names are the keys of a plain object  *)
(* ({}), so a name that Object.prototype already defines reads back as     *)
(* that inherited member, not as undefined, and the push on it throws a    *)
(* TypeError.  Names are lower-cased first, so the members that can be hit *)
(* are the ones spelled in lower case: constructor and __proto__.          *)
(***************************************************************************)
InheritedProperties ==
    {<<"c", "o", "n", "s", "t", "r", "u", "c", "t", "o", "r">>,
     <<"_", "_", "p", "r", "o", "t", "o", "_", "_">>}

(* From.getBuildStageRange is null unless the second argument is AS. *)
hasBuildStage(from) ==
    Len(from.args) > 2 /\ toUpperCase(from.args[2].value) = <<"A", "S">>

getBuildStage(from) == from.args[3].value

getFROMs(instructions) ==
    SelectSeq(instructions, LAMBDA ins : ins.keyword = "FROM")

NamedFROMs(froms) == SelectSeq(froms, hasBuildStage)

(* names[name].push(from) on a member inherited from Object.prototype *)
BuildStageNamesThrow(froms) ==
    \E i \in 1..Len(NamedFROMs(froms)) :
        toLowerCase(getBuildStage(NamedFROMs(froms)[i])) \in InheritedProperties

createDuplicateBuildStageNameDiagnostics(froms) ==
    LET named == NamedFROMs(froms)
        key(i) == toLowerCase(getBuildStage(named[i]))
        Group(i) == SelectSeq(named, LAMBDA f : toLowerCase(getBuildStage(f)) = key(i))
        OfName(i) ==
            IF (\E j \in 1..(i - 1) : key(j) = key(i)) \/ Len(Group(i)) <= 1
            THEN <<>>
            ELSE [m \in 1..Len(Group(i)) |->
                    createError(Group(i)[m].kwRange.start.line, Group(i)[m].args[3].range,
                                key(i), "DUPLICATE_BUILD_STAGE_NAME", {})]
    IN Flatten([i \in 1..Len(named) |-> OfName(i)])

(***************************************************************************)
(* validate                                                                *)
(***************************************************************************)
(* The variables of an instruction, as the parser lists them: $name and    *)
(* ${name} have no modifier (null), ${name:} has the empty modifier,       *)
(* ${name:mword} the modifier m.  The range of a variable runs from its    *)
(* dollar sign to the end of its name or its closing brace, the modifier   *)
(* range over the one character of the modifier.                           *)
(***************************************************************************)
RECURSIVE IndexOfChar(_, _, _)
IndexOfChar(value, ch, from) ==
    IF from > Len(value) THEN 0
    ELSE IF value[from] = ch THEN from
    ELSE IndexOfChar(value, ch, from + 1)

RECURSIVE NameEnd(_, _)
NameEnd(value, i) ==
    IF i < Len(value) /\ value[i + 1] \in Letters \cup Digits
    THEN NameEnd(value, i + 1)
    ELSE i

Variable(value, from, to, colon, line, col) ==
    [text |-> SubSeq(value, from, to),
     hasModifier |-> colon # 0,
     modifier |-> IF colon = 0 \/ colon + 1 = to THEN "" ELSE value[colon + 1],
     range |-> LineRng(line, col + from - 1, col + to),
     modifierRange |-> LineRng(line, col + colon, col + colon + 1)]

RECURSIVE VariableScan(_, _, _, _)
VariableScan(value, i, line, col) ==
    IF i >= Len(value) THEN <<>>
    ELSE IF value[i] = "$" /\ value[i + 1] = "{" /\ IndexOfChar(value, "}", i + 2) # 0
    THEN <<Variable(value, i, IndexOfChar(value, "}", i + 2),
                    IndexOfChar(SubSeq(value, 1, IndexOfChar(value, "}", i + 2)), ":", i + 2),
                    line, col)>>
           \o VariableScan(value, IndexOfChar(value, "}", i + 2) + 1, line, col)
    ELSE IF value[i] = "$" /\ value[i + 1] \in Letters
    THEN <<Variable(value, i, NameEnd(value, i + 1), 0, line, col)>>
           \o VariableScan(value, NameEnd(value, i + 1) + 1, line, col)
    ELSE VariableScan(value, i + 1, line, col)

getVariables(ins) ==
    Flatten([k \in 1..Len(ins.args) |->
               VariableScan(ins.args[k].value, 1, ins.args[k].range.start.line,
                            ins.args[k].range.start.character)])

(* A variant that lets CMD, ENTRYPOINT and RUN through only when the       *)
(* modifier is empty.                                                      *)
checkVariables_ShellFormChecked(ins) ==
    LET Check(variable) ==
          IF ~variable.hasModifier THEN <<>>
          ELSE IF variable.modifier = ""
          THEN (IF ins.keyword \in {"CMD", "ENTRYPOINT", "RUN"} THEN <<>>
                ELSE <<createError(ins.line, variable.range, <<variable.modifier>>,
                                   "UNSUPPORTED_MODIFIER", {})>>)
          ELSE IF variable.modifier \notin {"+", "-", "?"}
          THEN <<createError(ins.line, variable.modifierRange, <<variable.modifier>>,
                             "UNSUPPORTED_MODIFIER", {})>>
          ELSE <<>>
        Each(variables) == Flatten([k \in 1..Len(variables) |-> Check(variables[k])])
    IN Each(getVariables(ins))

checkVariables(ins) ==
    LET Check(variable) ==
          IF ~variable.hasModifier THEN <<>>
          ELSE IF ins.keyword \in {"CMD", "ENTRYPOINT", "RUN"} THEN <<>>
          ELSE IF variable.modifier = ""
          THEN <<createError(ins.line, variable.range, <<variable.modifier>>,
                             "UNSUPPORTED_MODIFIER", {})>>
          ELSE IF variable.modifier \notin {"+", "-", "?"}
          THEN <<createError(ins.line, variable.modifierRange, <<variable.modifier>>,
                             "UNSUPPORTED_MODIFIER", {})>>
          ELSE <<>>
        Each(variables) == Flatten([k \in 1..Len(variables) |-> Check(variables[k])])
    IN Each(getVariables(ins))

(***************************************************************************)
(* The second loop of validate: the source image check, the rules of each  *)
(* instruction and its variables.                                          *)
RECURSIVE InstructionLoop(_, _, _, _, _)
InstructionLoop(doc, instructions, k, hasFrom, s) ==
    IF k > Len(instructions) THEN <<>>
    ELSE LET ins == instructions[k]
             noSource == ins.keyword # "FROM" /\ ~hasFrom /\ ins.keyword # "ARG"
         IN (IF noSource
             THEN <<createNoSourceImage(ins.kwRange.start, ins.kwRange.end)>>
             ELSE <<>>)
            \o validateInstruction(doc, ins, FALSE, s)
            \o checkVariables(ins)
            \o InstructionLoop(doc, instructions, k + 1,
                               hasFrom \/ ins.keyword = "FROM" \/ noSource, s)

IGNORE_COMMENT == "dockerfile-utils: ignore"

IgnoredLines(doc) ==
    LET comments == getComments(doc)
    IN {comments[k].line : k \in {j \in 1..Len(comments) :
                                     comments[j].content = IGNORE_COMMENT}}

(* A variant that compares with the comment's own line. *)
FilterIgnored_SameLine(doc, all) ==
    SelectSeq(all, LAMBDA p :
        ~(p.instructionLine # NoLine
          /\ \E ignoredLine \in IgnoredLines(doc) : ignoredLine = p.instructionLine))

(* The problemsCheck loop: drop what an ignore comment covers. *)
FilterIgnored(doc, all) ==
    SelectSeq(all, LAMBDA p :
        ~(p.instructionLine # NoLine
          /\ \E ignoredLine \in IgnoredLines(doc) : ignoredLine + 1 = p.instructionLine))

(* Validator.constructor: the instance and its fields.  No document is     *)
(* held before the first call of validate.                                 *)
Validator(given) == [document |-> <<>>, settings |-> ValidatorSettingsOf(given)]

(* A variant that keeps the document of the first call. *)
Validator_validate_KeepsDocument(this, doc) ==
    LET self == IF this.document = <<>> THEN [this EXCEPT !.document = doc] ELSE this
        s == self.settings
        instructions == getInstructions(doc)
        ARGs == SelectSeq(instructions, LAMBDA ins : ins.keyword = "ARG")
        triggers == getOnbuildTriggers(doc)
        all ==
            checkDirectives(doc, s)
              \o (IF Len(instructions) = 0 \/ Len(ARGs) = Len(instructions)
                  THEN <<createNoSourceImage(Pos(0, 0), Pos(0, 0))>>
                  ELSE <<>>)
              \o MultiplesLoop(instructions, 1, s, <<>>, <<>>, <<>>)
              \o createDuplicateBuildStageNameDiagnostics(getFROMs(instructions))
              \o InstructionLoop(self.document, instructions, 1, FALSE, s)
              \o Flatten([k \in 1..Len(triggers) |->
                            validateInstruction(self.document, triggers[k], TRUE, s)])
    IN IF BuildStageNamesThrow(getFROMs(instructions))
       THEN [this |-> self, threw |-> TRUE, problems |-> <<>>]
       ELSE [this |-> self, threw |-> FALSE, problems |-> FilterIgnored(doc, all)]

(* Validator.validate(document): the instance after the call, and what the *)
(* call returns or that it throws.  this.document is assigned first; the   *)
(* checks of an instruction read the text through this.document.           *)
Validator_validate(this, doc) ==
    LET self == [this EXCEPT !.document = doc]
        s == self.settings
        instructions == getInstructions(doc)
        ARGs == SelectSeq(instructions, LAMBDA ins : ins.keyword = "ARG")
        triggers == getOnbuildTriggers(doc)
        all ==
            checkDirectives(doc, s)
              \o (IF Len(instructions) = 0 \/ Len(ARGs) = Len(instructions)
                  THEN <<createNoSourceImage(Pos(0, 0), Pos(0, 0))>>
                  ELSE <<>>)
              \o MultiplesLoop(instructions, 1, s, <<>>, <<>>, <<>>)
              \o createDuplicateBuildStageNameDiagnostics(getFROMs(instructions))
              \o InstructionLoop(self.document, instructions, 1, FALSE, s)
              \o Flatten([k \in 1..Len(triggers) |->
                            validateInstruction(self.document, triggers[k], TRUE, s)])
    IN IF BuildStageNamesThrow(getFROMs(instructions))
       THEN [this |-> self, threw |-> TRUE, problems |-> <<>>]
       ELSE [this |-> self, threw |-> FALSE, problems |-> FilterIgnored(doc, all)]

(* main.ts validate(content, settings): new Validator(settings).validate(document) *)
validate(doc, given) ==
    LET call == Validator_validate(Validator(given), doc)
    IN  [threw |-> call.threw, problems |-> call.problems]

(***************************************************************************)
(* The documents.  Each item below is one line (or one multi-line          *)
(* instruction) that can be appended to the document.                      *)
(***************************************************************************)
Tok_a == <<"a">>
Tok_AS == <<"A", "S">>
Tok_b == <<"b">>
Tok_B == <<"B">>
Tok_constructor == <<"c", "o", "n", "s", "t", "r", "u", "c", "t", "o", "r">>
Tok_x == <<"x">>
Tok_ls == <<"l", "s">>
Tok_NONE == <<"N", "O", "N", "E">>
Tok_json == <<"[", "'", "l", "s", "'", "]">>

DirectiveChoices == {Directive("ESCAPE", "escape", "\\")}

CommentChoices == {Comment(IGNORE_COMMENT), Comment("note")}

InstructionChoices ==
    {Instruction("FROM", "FROM", <<Tok_a>>, <<>>),
     Instruction("FROM", "FROM", <<Tok_a, Tok_AS, Tok_b>>, <<>>),
     Instruction("FROM", "FROM", <<Tok_a, Tok_AS, Tok_B>>, <<>>),
     Instruction("FROM", "FROM", <<Tok_a, Tok_AS, Tok_constructor>>, <<>>),
     Instruction("ARG", "ARG", <<Tok_x>>, <<>>),
     Instruction("CMD", "CMD", <<Tok_ls>>, <<>>),
     Instruction("cmd", "CMD", <<Tok_json>>, <<>>),
     Instruction("ENTRYPOINT", "ENTRYPOINT", <<Tok_ls>>, <<>>),
     Instruction("HEALTHCHECK", "HEALTHCHECK", <<Tok_NONE>>, <<>>),
     Instruction("MAINTAINER", "MAINTAINER", <<Tok_x>>, <<>>),
     Instruction("WORKDIR", "WORKDIR", <<Tok_x>>, <<>>),
     Instruction("runcmd", "RUNCMD", <<Tok_x>>, <<>>),
     Instruction("RUN", "RUN", <<Tok_ls>>, <<"blank", "text">>),
     Instruction("RUN", "RUN", <<Tok_ls>>, <<"blank", "blank">>),
     OnbuildInstruction("ONBUILD",
                        [written |-> "MAINTAINER", keyword |-> "MAINTAINER",
                         args |-> <<Tok_x>>], <<>>)}

(* Blank continuation lines at the end of an instruction run to the end of *)
(* the file: any later line would belong to the instruction.               *)
RunsToEndOfFile(item) ==
    item.type = "instruction" /\ item.cont # <<>> /\ item.cont[Len(item.cont)] = "blank"

Open(doc) ==
    /\ Len(doc) < MaxItems
    /\ IF doc = <<>> THEN TRUE ELSE ~RunsToEndOfFile(doc[Len(doc)])

(* The settings argument of validate: none, {}, one severity for every     *)
(* key, or the defaults with one key changed or left out.                  *)
SettingsChoices ==
    {NoSettings}
      \cup {SettingsObject([k \in SettingKeys |-> v]) :
              v \in ValidationSeverity \cup {Undefined}}
      \cup {SettingsObject([DefaultSettings EXCEPT ![k] = v]) :
              k \in SettingKeys, v \in {"IGNORE", "ERROR", Undefined}}

(***************************************************************************)
(* dockerFormatter.ts.  The text to format is kept character by character. *)
(* Its lines end at "\n", "\r\n" or "\r", as in the TextDocument that the  *)
(* formatter asks for offsets and positions.                               *)
(***************************************************************************)
Whitespace == {" ", "\t"}

Terminators == {"\r", "\n"}

(* The offsets at which the lines of the text start. *)
LineOffsets(text) ==
    LET IsBreak(i) ==
            \/ text[i] = "\n"
            \/ text[i] = "\r" /\ (IF i = Len(text) THEN TRUE ELSE text[i + 1] # "\n")
        RECURSIVE Starts(_)
        Starts(i) ==
            IF i > Len(text) THEN <<>>
            ELSE IF IsBreak(i) THEN <<i>> \o Starts(i + 1)
            ELSE Starts(i + 1)
    IN  <<0>> \o Starts(1)

TextLineCount(text) == Len(LineOffsets(text))

offsetAt(text, position) ==
    LET lineOffsets == LineOffsets(text) IN
    IF position.line >= Len(lineOffsets) THEN Len(text)
    ELSE IF position.line < 0 THEN 0
    ELSE LET lineOffset == lineOffsets[position.line + 1]
             nextLineOffset == IF position.line + 1 < Len(lineOffsets)
                               THEN lineOffsets[position.line + 2]
                               ELSE Len(text)
             at == lineOffset + position.character
         IN  IF at > nextLineOffset THEN nextLineOffset
             ELSE IF at < lineOffset THEN lineOffset
             ELSE at

positionAt(text, offset) ==
    LET lineOffsets == LineOffsets(text)
        line == CHOOSE l \in 1..Len(lineOffsets) :
                   /\ lineOffsets[l] <= offset
                   /\ \A m \in 1..Len(lineOffsets) :
                         lineOffsets[m] <= offset => m <= l
    IN  Pos(line - 1, offset - lineOffsets[line])

(* The lines of the text as the parser reads them: the leading spaces and  *)
(* tabs of each line, and what follows them up to the line's terminator.   *)
TextLines(text) ==
    LET lineOffsets == LineOffsets(text)
        RECURSIVE Lead(_)
        Lead(s) == IF s # <<>> /\ Head(s) \in Whitespace
                   THEN <<Head(s)>> \o Lead(Tail(s)) ELSE <<>>
        RECURSIVE Chomp(_)
        Chomp(s) == IF s # <<>> /\ s[Len(s)] \in Terminators
                    THEN Chomp(SubSeq(s, 1, Len(s) - 1)) ELSE s
        Raw(l) == SubSeq(text, lineOffsets[l] + 1,
                         IF l < Len(lineOffsets) THEN lineOffsets[l + 1] ELSE Len(text))
    IN  [l \in 1..Len(lineOffsets) |->
           LET line == Chomp(Raw(l))
               indent == Lead(line)
           IN  [indent |-> indent,
                body |-> SubSeq(line, Len(indent) + 1, Len(line))]]

(* DockerfileParser.parse as the formatter uses its result: the escape     *)
(* character, the parser directives (the first lines of the file), the     *)
(* comments, and the instructions with their line ranges and heredocs.     *)
(* Every instruction of the texts below is a RUN.  An instruction runs on  *)
(* while its lines end with the escape character, over blank lines and     *)
(* comments, and through its heredoc up to the delimiter "E" at column 0.  *)
(* A line continues on the next one when the escape character is the last  *)
(* character before its terminator, spaces and tabs aside.                 *)
parse(text) ==
    LET Read(lines) ==
    LET last == Len(lines) - 1
        IsCommentText(body) == body # <<>> /\ body[1] = "#"
        IsDirectiveText(body) ==
            Len(body) = 4 /\ body[1] = "#" /\ body[2] = "e" /\ body[3] = "="
        HasHeredoc(body) == \E i \in 1..Len(body) : body[i] = "<"
        IsDelimiterLine(line) == line.indent = <<>> /\ line.body = <<"E">>
        EndsWithEscape(body, ch) ==
            \E i \in 1..Len(body) :
                /\ body[i] = ch
                /\ \A j \in (i + 1)..Len(body) : body[j] \in Whitespace
        NullRange == [null |-> TRUE, start |-> Pos(0, 0), end |-> Pos(0, 0)]
        LinesRange(first, end) ==
            [null |-> FALSE, start |-> Pos(first, 0), end |-> Pos(end, 0)]
        directives ==
            {l \in 0..last :
                \A m \in 0..l : /\ IsDirectiveText(lines[m + 1].body)
                                /\ lines[m + 1].indent = <<>>}
        escape == IF directives # {} THEN lines[1].body[4] ELSE "\\"
        Ins(first, end, heredocs) ==
            [range |-> Rng(Pos(first, 0), Pos(end, 0)), heredocs |-> heredocs]
        RECURSIVE Scan(_, _, _, _, _)
        Scan(l, mode, first, mark, acc) ==
            IF l > last
            THEN CASE mode = "top" -> acc
                   [] mode = "more" ->
                        [acc EXCEPT !.instructions = Append(@, Ins(first, last, <<>>))]
                   [] mode = "heredoc" ->
                        [acc EXCEPT !.instructions = Append(@,
                            Ins(first, last,
                                <<[contentRange |-> IF mark < last
                                                    THEN LinesRange(mark + 1, last)
                                                    ELSE NullRange,
                                   delimiterRange |-> NullRange]>>))]
            ELSE LET line == lines[l + 1]
                     body == line.body
                 IN  CASE mode = "heredoc" ->
                            IF IsDelimiterLine(line)
                            THEN Scan(l + 1, "top", 0, 0,
                                      [acc EXCEPT !.instructions = Append(@,
                                          Ins(first, l,
                                              <<[contentRange |-> IF mark + 1 < l
                                                                  THEN LinesRange(mark + 1, l - 1)
                                                                  ELSE NullRange,
                                                 delimiterRange |-> LinesRange(l, l)]>>))])
                            ELSE Scan(l + 1, "heredoc", first, mark, acc)
                       [] mode # "heredoc" /\ l \in directives ->
                            Scan(l + 1, "top", 0, 0, acc)
                       [] mode # "heredoc" /\ l \notin directives /\ body = <<>> ->
                            Scan(l + 1, mode, first, mark, acc)
                       [] mode # "heredoc" /\ l \notin directives /\ IsCommentText(body) ->
                            Scan(l + 1, mode, first, mark,
                                 [acc EXCEPT !.comments = @ \cup {l}])
                       [] OTHER ->
                            LET start == IF mode = "top" THEN l ELSE first IN
                            IF HasHeredoc(body)
                            THEN Scan(l + 1, "heredoc", start, l, acc)
                            ELSE IF EndsWithEscape(body, escape)
                            THEN Scan(l + 1, "more", start, 0, acc)
                            ELSE Scan(l + 1, "top", 0, 0,
                                      [acc EXCEPT !.instructions =
                                                     Append(@, Ins(start, l, <<>>))])
        scanned == Scan(0, "top", 0, 0, [instructions |-> <<>>, comments |-> {}])
    IN  [escape |-> escape,
         directives |-> directives,
         comments |-> scanned.comments,
         instructions |-> scanned.instructions]
    IN  Read(TextLines(text))

(* The formatting options; formatDocument may be called without any. *)
NoOptions ==
    [given |-> FALSE, insertSpaces |-> FALSE, tabSize |-> 0,
     ignoreMultilineInstructions |-> FALSE]

FormatterSettings(insertSpaces, tabSize, ignoreMultilineInstructions) ==
    [given |-> TRUE, insertSpaces |-> insertSpaces, tabSize |-> tabSize,
     ignoreMultilineInstructions |-> ignoreMultilineInstructions]

getIndentation_AlwaysTab(formattingOptions) == <<"\t">>

getIndentation(formattingOptions) ==
    IF formattingOptions.given /\ formattingOptions.insertSpaces
    THEN [i \in 1..formattingOptions.tabSize |-> " "]
    ELSE <<"\t">>

TextEdit(range, newText) == [range |-> range, newText |-> newText]

createFormattingEdit_AlwaysDelete(text, start, end, indent, indentation) ==
    TextEdit(Rng(positionAt(text, start), positionAt(text, end)), <<>>)

createFormattingEdit(text, start, end, indent, indentation) ==
    IF indent
    THEN TextEdit(Rng(positionAt(text, start), positionAt(text, end)), indentation)
    ELSE TextEdit(Rng(positionAt(text, start), positionAt(text, end)), <<>>)

DockerFormatter_getHeredocLines_ContentOnly(heredocs) ==
    Flatten([i \in 1..Len(heredocs) |->
                IF heredocs[i].contentRange.null THEN <<>>
                ELSE [n \in 1..(heredocs[i].contentRange.end.line
                                  - heredocs[i].contentRange.start.line + 1) |->
                         heredocs[i].contentRange.start.line + n - 1]])

DockerFormatter_getHeredocLines(heredocs) ==
    LET RECURSIVE First(_)
        First(i) ==
            IF i > Len(heredocs) THEN -1
            ELSE IF ~heredocs[i].contentRange.null
            THEN heredocs[i].contentRange.start.line
            ELSE IF ~heredocs[i].delimiterRange.null
            THEN heredocs[i].delimiterRange.start.line
            ELSE First(i + 1)
        RECURSIVE Last(_)
        Last(i) ==
            IF i < 1 THEN -1
            ELSE IF ~heredocs[i].delimiterRange.null
            THEN heredocs[i].delimiterRange.end.line
            ELSE IF ~heredocs[i].contentRange.null
            THEN heredocs[i].contentRange.end.line
            ELSE Last(i - 1)
        start == First(1)
        end == Last(Len(heredocs))
    IN  IF start = -1 THEN <<>>
        ELSE [i \in 1..(end - start + 1) |-> start + i - 1]

inHeredoc(dockerfile, line) ==
    \E k \in 1..Len(dockerfile.instructions) :
        LET lines == DockerFormatter_getHeredocLines(dockerfile.instructions[k].heredocs)
        IN  \E i \in 1..Len(lines) : lines[i] = line

(* The edits of the given lines.  indentedLines and skippedLines are the   *)
(* sets of the lines whose array entry is true.                            *)
formatLines(text, lines, indentedLines, skippedLines, heredocLines, options) ==
    LET indentation == getIndentation(options)
        RECURSIVE LineEdits(_, _, _)
        LineEdits(line, startOffset, j) ==
            IF j >= Len(text)
            THEN IF startOffset < Len(text)
                 THEN <<TextEdit(Rng(positionAt(text, startOffset),
                                     positionAt(text, Len(text))), <<>>)>>
                 ELSE <<>>
            ELSE IF text[j + 1] \in Whitespace
            THEN LineEdits(line, startOffset, j + 1)
            ELSE IF text[j + 1] \in Terminators
            THEN IF j # startOffset
                 THEN <<TextEdit(Rng(positionAt(text, startOffset),
                                     positionAt(text, j)), <<>>)>>
                 ELSE <<>>
            ELSE IF line \in indentedLines
            THEN IF SubSeq(text, startOffset + 1, j) # indentation
                 THEN <<createFormattingEdit(text, startOffset, j, TRUE, indentation)>>
                 ELSE <<>>
            ELSE IF j # startOffset
            THEN <<createFormattingEdit(text, startOffset, j, FALSE, indentation)>>
            ELSE <<>>
        RECURSIVE Each(_)
        Each(i) ==
            IF i > Len(lines) THEN <<>>
            ELSE IF options.given /\ options.ignoreMultilineInstructions
                      /\ lines[i] \in skippedLines
            THEN Each(i + 1)
            ELSE IF \E h \in 1..Len(heredocLines) : heredocLines[h] = lines[i]
            THEN Each(i + 1)
            ELSE LineEdits(lines[i], offsetAt(text, Pos(lines[i], 0)),
                           offsetAt(text, Pos(lines[i], 0))) \o Each(i + 1)
    IN  Each(1)

format(text, lines, options) ==
    LET Layout(instructions) ==
    LET Continuation(k) ==
            (instructions[k].range.start.line + 1)..instructions[k].range.end.line
        RECURSIVE Indented(_)
        Indented(k) ==
            IF k = 0 THEN {}
            ELSE (Indented(k - 1) \ {instructions[k].range.start.line})
                   \cup Continuation(k)
        skippedLines == UNION {Continuation(k) : k \in 1..Len(instructions)}
        heredocLines ==
            Flatten([k \in 1..Len(instructions) |->
                        IF Len(instructions[k].heredocs) > 0
                        THEN DockerFormatter_getHeredocLines(instructions[k].heredocs)
                        ELSE <<>>])
    IN  formatLines(text, lines, Indented(Len(instructions)), skippedLines,
                    heredocLines, options)
    IN  Layout(parse(text).instructions)

formatRange_EndLineTwice(text, range, options) ==
    format(text,
           [i \in 1..(range.end.line - range.start.line + 2) |->
               IF i > range.end.line - range.start.line + 1
               THEN range.end.line ELSE range.start.line + i - 1],
           options)

formatRange_StartLineOnly(text, range, options) ==
    format(text, <<range.start.line>>, options)

formatRange(text, range, options) ==
    format(text,
           [i \in 1..(range.end.line - range.start.line + 1) |->
               range.start.line + i - 1],
           options)

formatDocument(text, options) ==
    format(text, [i \in 1..TextLineCount(text) |-> i - 1], options)

formatOnType(text, position, ch, options) ==
    LET With(dockerfile) ==
    LET RECURSIVE OnlyWhitespaceFollows(_)
        OnlyWhitespaceFollows(i) ==
            IF i >= Len(text) THEN TRUE
            ELSE IF text[i + 1] \in Whitespace THEN OnlyWhitespaceFollows(i + 1)
            ELSE text[i + 1] \in Terminators
        line == position.line + 1
    IN  IF dockerfile.escape # ch THEN <<>>
        ELSE IF position.line \in dockerfile.comments THEN <<>>
        ELSE IF dockerfile.directives # {} /\ position.line = 0 THEN <<>>
        ELSE IF ~OnlyWhitespaceFollows(offsetAt(text, position)) THEN <<>>
        ELSE formatLines(text, <<line>>, {line}, {line},
                         IF inHeredoc(dockerfile, line) THEN <<line>> ELSE <<>>,
                         options)
    IN  With(parse(text))

(* Applying one edit to a text, and a sequence of edits one after another, *)
(* each at the position its range names in the text it is applied to.      *)
RECURSIVE ApplyEdits(_, _)
ApplyEdits(text, textEdits) ==
    LET ApplyEdit(edit) ==
            SubSeq(text, 1, offsetAt(text, edit.range.start))
              \o edit.newText
              \o SubSeq(text, offsetAt(text, edit.range.end) + 1, Len(text))
    IN  IF textEdits = <<>> THEN text
        ELSE ApplyEdits(ApplyEdit(Head(textEdits)), Tail(textEdits))

(* The lines a text is made of: leading whitespace, text, terminator.  "R" *)
(* is an instruction, "R<E" an instruction that opens the heredoc "E".     *)
LineChoices ==
    LET DirectiveText == <<"#", "e", "=", Backtick>>
        CommentText == <<"#", "c">>
    IN
    {DirectiveText \o <<"\n">>,
     CommentText \o <<"\n">>,
     <<" ">> \o CommentText \o <<"\n">>,
     <<"R", "\n">>,
     <<"\t", "R", "\n">>,
     <<" ", " ", "R", "\r", "\n">>,
     <<"R", "\\", "\n">>,
     <<"R", Backtick, "\n">>,
     <<" ", "R", "\\", " ", "\r", "\n">>,
     <<"\n">>,
     <<" ", "\t", "\n">>,
     <<"R", "<", "E", "\n">>,
     <<"E", "\n">>,
     <<"\t", "E", "\n">>,
     <<"\t", "R">>,
     <<" ">>}

OptionsChoices ==
    {NoOptions,
     FormatterSettings(FALSE, 4, FALSE),
     FormatterSettings(TRUE, 2, FALSE),
     FormatterSettings(TRUE, 0, FALSE),
     FormatterSettings(FALSE, 4, TRUE)}

NoRequest == [kind |-> "none", range |-> Rng(Pos(0, 0), Pos(0, 0)), ch |-> ""]

(***************************************************************************)
(* The state machine.  A document is written item by item; validate is     *)
(* then called on it once, with or without a settings object.              *)
(***************************************************************************)
Init ==
    /\ document = <<>>
    /\ settings = NoSettings
    /\ problems = <<>>
    /\ threw = FALSE
    /\ pc = "edit"
    /\ buffer = <<>>
    /\ formatting = NoOptions
    /\ request = NoRequest
    /\ edits = <<>>
    /\ again = <<>>
    /\ validator = [constructed |-> FALSE, this |-> Validator(NoSettings),
                    processed |-> <<>>]

(* Parser directives are only recognised at the top of the file. *)
AddDirective ==
    /\ pc = "edit"
    /\ Open(document)
    /\ \A i \in 1..Len(document) : document[i].type = "directive"
    /\ \E d \in DirectiveChoices : document' = Append(document, d)
    /\ UNCHANGED <<settings, problems, threw, pc>>
    /\ UNCHANGED <<buffer, formatting, request, edits, again, validator>>

AddComment ==
    /\ pc = "edit"
    /\ Open(document)
    /\ \E c \in CommentChoices : document' = Append(document, c)
    /\ UNCHANGED <<settings, problems, threw, pc>>
    /\ UNCHANGED <<buffer, formatting, request, edits, again, validator>>

AddInstruction ==
    /\ pc = "edit"
    /\ Open(document)
    /\ \E ins \in InstructionChoices : document' = Append(document, ins)
    /\ UNCHANGED <<settings, problems, threw, pc>>
    /\ UNCHANGED <<buffer, formatting, request, edits, again, validator>>

(* main.ts validate(content, settings): new Validator(settings).validate(document) *)
Validate ==
    /\ pc = "edit"
    /\ \E given \in SettingsChoices :
          /\ settings' = given
          /\ threw' = validate(document, given).threw
          /\ problems' = validate(document, given).problems
    /\ pc' = "done"
    /\ UNCHANGED document
    /\ UNCHANGED <<buffer, formatting, request, edits, again, validator>>

Next == AddDirective \/ AddComment \/ AddInstruction \/ Validate

Spec == Init /\ [][Next]_vars

(***************************************************************************)
(* The formatter's state machine.  A text is typed line by line; one of    *)
(* formatDocument, formatRange and formatOnType is then called on it.  The *)
(* edits of formatDocument are applied and the result is formatted again   *)
(* with the same options.                                                  *)
(***************************************************************************)
(* A text can be typed into while it is empty or ends with a terminator. *)
TypeLine ==
    /\ pc = "edit"
    /\ TextLineCount(buffer) <= MaxLines
    /\ IF buffer = <<>> THEN TRUE ELSE buffer[Len(buffer)] \in Terminators
    /\ \E line \in LineChoices : buffer' = buffer \o line
    /\ UNCHANGED <<formatting, request, edits, again>>
    /\ UNCHANGED <<document, settings, problems, threw, pc, validator>>

(* main.ts format(content, options) *)
FormatDocument ==
    /\ pc = "edit"
    /\ \E o \in OptionsChoices :
          /\ formatting' = o
          /\ edits' = formatDocument(buffer, o)
    /\ request' = [NoRequest EXCEPT !.kind = "document"]
    /\ pc' = "formatted"
    /\ UNCHANGED <<buffer, again>>
    /\ UNCHANGED <<document, settings, problems, threw, validator>>

(* DockerFormatter.formatRange(document, range, options) *)
FormatRange ==
    /\ pc = "edit"
    /\ \E o \in OptionsChoices \ {NoOptions} :
       \E first \in 0..(TextLineCount(buffer) - 1) :
       \E last \in first..(TextLineCount(buffer) - 1) :
          /\ formatting' = o
          /\ request' = [NoRequest EXCEPT !.kind = "range",
                                          !.range = Rng(Pos(first, 0), Pos(last, 0))]
          /\ edits' = formatRange(buffer, Rng(Pos(first, 0), Pos(last, 0)), o)
    /\ pc' = "formatted"
    /\ UNCHANGED <<buffer, again>>
    /\ UNCHANGED <<document, settings, problems, threw, validator>>

(* DockerFormatter.formatOnType(document, position, ch, options) *)
FormatOnType ==
    /\ pc = "edit"
    /\ \E o \in {FormatterSettings(FALSE, 4, FALSE), FormatterSettings(TRUE, 2, FALSE)} :
       \E line \in 0..(TextLineCount(buffer) - 1) :
       \E character \in 0..MaxColumn :
       \E ch \in {"\\", Backtick} :
          /\ formatting' = o
          /\ request' = [kind |-> "onType",
                         range |-> Rng(Pos(line, character), Pos(line, character)),
                         ch |-> ch]
          /\ edits' = formatOnType(buffer, Pos(line, character), ch, o)
    /\ pc' = "formatted"
    /\ UNCHANGED <<buffer, again>>
    /\ UNCHANGED <<document, settings, problems, threw, validator>>

(* The editor applies the edits of formatDocument to the text. *)
Apply ==
    /\ pc = "formatted"
    /\ request.kind = "document"
    /\ buffer' = ApplyEdits(buffer, edits)
    /\ pc' = "applied"
    /\ UNCHANGED <<formatting, request, edits, again>>
    /\ UNCHANGED <<document, settings, problems, threw, validator>>

Reformat ==
    /\ pc = "applied"
    /\ again' = formatDocument(buffer, formatting)
    /\ pc' = "reformatted"
    /\ UNCHANGED <<buffer, formatting, request, edits>>
    /\ UNCHANGED <<document, settings, problems, threw, validator>>

NextFormat ==
    TypeLine \/ FormatDocument \/ FormatRange \/ FormatOnType \/ Apply \/ Reformat

SpecFormat == Init /\ [][NextFormat]_vars

(***************************************************************************)
(* HEALTHCHECK flags.  The document is FROM a, then HEALTHCHECK CMD ls     *)
(* with flags that are added one by one, the value of the newest flag      *)
(* being typed pair by pair; validate is then called without settings.     *)
(***************************************************************************)
(* A magnitude as written, with the number of tenths it stands for; a      *)
(* period or a hyphen alone is no number.                                  *)
Magnitudes ==
    {[text |-> <<"0">>, tenths |-> 0],
     [text |-> <<"1">>, tenths |-> 10],
     [text |-> <<"5", "0", "0">>, tenths |-> 5000],
     [text |-> <<"9", "0", "0">>, tenths |-> 9000],
     [text |-> <<"0", ".", "5">>, tenths |-> 5],
     [text |-> <<"-", "1">>, tenths |-> -10],
     [text |-> <<".">>, tenths |-> 0],
     [text |-> <<"-">>, tenths |-> 0]}

Units == DurationUnits \cup {<<"x">>, <<>>}

FlagNames == {"interval", "timeout", "retries"}

HealthcheckDocument(flags) ==
    <<Instruction("FROM", "FROM", <<Tok_a>>, <<>>),
      [Instruction("HEALTHCHECK", "HEALTHCHECK", <<<<"C", "M", "D">>, Tok_ls>>, <<>>)
         EXCEPT !.flags = flags]>>

HealthcheckFlags == IF document = <<>> THEN <<>> ELSE document[2].flags

RECURSIVE PairCount(_)
PairCount(flags) ==
    IF flags = <<>> THEN 0 ELSE Len(Head(flags).pairs) + PairCount(Tail(flags))

AddFlag ==
    /\ pc = "edit"
    /\ Len(HealthcheckFlags) < MaxFlags
    /\ \E name \in FlagNames, hasValue \in BOOLEAN :
          document' = HealthcheckDocument(
                          Append(HealthcheckFlags, Flag(name, hasValue, <<>>)))
    /\ UNCHANGED <<settings, problems, threw, pc>>
    /\ UNCHANGED <<buffer, formatting, request, edits, again, validator>>

TypePair ==
    /\ pc = "edit"
    /\ HealthcheckFlags # <<>>
    /\ HealthcheckFlags[Len(HealthcheckFlags)].hasValue
    /\ PairCount(HealthcheckFlags) < MaxPairs
    /\ \E m \in Magnitudes, unit \in Units :
          document' = HealthcheckDocument(
              [HealthcheckFlags EXCEPT ![Len(HealthcheckFlags)].pairs =
                  Append(@, [magnitude |-> m.text, tenths |-> m.tenths, unit |-> unit])])
    /\ UNCHANGED <<settings, problems, threw, pc>>
    /\ UNCHANGED <<buffer, formatting, request, edits, again, validator>>

(* main.ts validate(content) *)
ValidateDefault ==
    /\ pc = "edit"
    /\ settings' = NoSettings
    /\ threw' = validate(document, NoSettings).threw
    /\ problems' = validate(document, NoSettings).problems
    /\ pc' = "done"
    /\ UNCHANGED document
    /\ UNCHANGED <<buffer, formatting, request, edits, again, validator>>

NextDuration == AddFlag \/ TypePair \/ ValidateDefault

SpecDuration == Init /\ [][NextDuration]_vars

(***************************************************************************)
(* EXPOSE.  The document is made of FROM a lines and of EXPOSE lines with  *)
(* one or two arguments.                                                   *)
(***************************************************************************)
ExposeArguments ==
    {<<"8", "0">>,
     <<"8", "0", "/", "T", "c", "p">>,
     <<"8", "0", "/", "t", "c", "p", "x">>,
     <<"8", "0", "/", "x">>,
     <<"8", "0", "/", "8", "x">>,
     <<"8", "0", "/", "a", "b", "/", "c">>}

AddFrom ==
    /\ pc = "edit"
    /\ Len(document) < MaxItems
    /\ document' = Append(document, Instruction("FROM", "FROM", <<<<"a">>>>, <<>>))
    /\ UNCHANGED <<settings, problems, threw, pc>>
    /\ UNCHANGED <<buffer, formatting, request, edits, again, validator>>

AddExpose ==
    /\ pc = "edit"
    /\ Len(document) < MaxItems
    /\ \E first \in ExposeArguments, rest \in {<<>>} \cup {<<a>> : a \in ExposeArguments} :
          document' = Append(document,
                             Instruction("EXPOSE", "EXPOSE", <<first>> \o rest, <<>>))
    /\ UNCHANGED <<settings, problems, threw, pc>>
    /\ UNCHANGED <<buffer, formatting, request, edits, again, validator>>

NextExpose == AddFrom \/ AddExpose \/ ValidateDefault

SpecExpose == Init /\ [][NextExpose]_vars

(***************************************************************************)
(* One Validator instance that validates one document after another, as    *)
(* in the test "multiples / default".  validator.processed records the     *)
(* documents the instance has been given so far.                           *)
(***************************************************************************)
ReuseSettings == {NoSettings, SettingsObject([k \in SettingKeys |-> "ERROR"])}

ReuseChoices ==
    {Instruction("FROM", "FROM", <<<<"a">>>>, <<>>),
     Instruction("CMD", "CMD", <<<<"l", "s">>>>, <<>>),
     Instruction("MAINTAINER", "MAINTAINER", <<<<"x">>>>, <<>>),
     Instruction("EXPOSE", "EXPOSE", <<<<"8", "0", "/", "x">>>>, <<>>),
     Instruction("EXPOSE", "EXPOSE", <<<<"8", "0", "/", "t", "c", "p", "x">>, <<"8", "0">>>>,
                 <<>>)}

(* new Validator(settings) *)
Construct ==
    /\ pc = "edit"
    /\ ~validator.constructed
    /\ document = <<>>
    /\ \E given \in ReuseSettings :
          /\ settings' = given
          /\ validator' = [constructed |-> TRUE, this |-> Validator(given),
                           processed |-> <<>>]
    /\ UNCHANGED <<document, problems, threw, pc>>
    /\ UNCHANGED <<buffer, formatting, request, edits, again>>

AddLine ==
    /\ pc = "edit"
    /\ validator.constructed
    /\ Len(document) < MaxReuseItems
    /\ \E item \in ReuseChoices : document' = Append(document, item)
    /\ UNCHANGED <<settings, problems, threw, pc>>
    /\ UNCHANGED <<buffer, formatting, request, edits, again, validator>>

(* validator.validate(createDocument(content)) *)
ValidateAgain ==
    /\ pc = "edit"
    /\ validator.constructed
    /\ Len(validator.processed) < MaxCalls
    /\ LET call == Validator_validate(validator.this, document)
       IN  /\ validator' = [validator EXCEPT !.this = call.this,
                                             !.processed = Append(@, document)]
           /\ threw' = call.threw
           /\ problems' = call.problems
    /\ pc' = "done"
    /\ UNCHANGED <<document, settings>>
    /\ UNCHANGED <<buffer, formatting, request, edits, again>>

(* The next document is written. *)
NewDocument ==
    /\ pc = "done"
    /\ validator.constructed
    /\ Len(validator.processed) < MaxCalls
    /\ document' = <<>>
    /\ problems' = <<>>
    /\ threw' = FALSE
    /\ pc' = "edit"
    /\ UNCHANGED settings
    /\ UNCHANGED <<buffer, formatting, request, edits, again, validator>>

NextReuse == Construct \/ AddLine \/ ValidateAgain \/ NewDocument

SpecReuse == Init /\ [][NextReuse]_vars

(***************************************************************************)
(* Documents of instructions that span several lines: RUN and CMD with     *)
(* every layout of argument lines and blank lines after the first line,    *)
(* RUN with a heredoc whose content has a blank line, and ONBUILD whose    *)
(* trigger spans several lines.                                            *)
(***************************************************************************)
MaxContLines == 3

ContLayouts ==
    UNION {[1..n -> {"text", "blank"}] : n \in 1..MaxContLines}

Tok_heredoc == <<"<", "<", "E">>

ContinuationChoices ==
    {Instruction("FROM", "FROM", <<Tok_a>>, <<>>),
     Instruction("CMD", "CMD", <<Tok_ls>>, <<"blank", "text">>),
     Instruction("RUN", "RUN", <<Tok_heredoc>>, <<"content", "delimiter">>),
     Instruction("RUN", "RUN", <<Tok_heredoc>>,
                 <<"content", "blankContent", "content", "delimiter">>),
     OnbuildInstruction("ONBUILD",
                        [written |-> "RUN", keyword |-> "RUN", args |-> <<Tok_ls>>],
                        <<"blank", "text">>),
     OnbuildInstruction("ONBUILD",
                        [written |-> "RUN", keyword |-> "RUN", args |-> <<Tok_ls>>],
                        <<"text", "blank", "blank">>)}
      \cup {Instruction("RUN", "RUN", <<Tok_ls>>, layout) : layout \in ContLayouts}

AddContinued ==
    /\ pc = "edit"
    /\ Open(document)
    /\ \E ins \in ContinuationChoices : document' = Append(document, ins)
    /\ UNCHANGED <<settings, problems, threw, pc>>
    /\ UNCHANGED <<buffer, formatting, request, edits, again, validator>>

NextContinuation == AddComment \/ AddContinued \/ Validate

SpecContinuation == Init /\ [][NextContinuation]_vars

(***************************************************************************)
(* Documents of ONBUILD instructions with every kind of trigger: the       *)
(* disallowed FROM, MAINTAINER and ONBUILD, in upper and lower case, with  *)
(* and without arguments, and allowed and unknown ones.                    *)
(***************************************************************************)
TriggerChoices ==
    {[written |-> "FROM", keyword |-> "FROM", args |-> <<Tok_a>>],
     [written |-> "from", keyword |-> "FROM", args |-> <<Tok_a>>],
     [written |-> "FROM", keyword |-> "FROM", args |-> <<>>],
     [written |-> "MAINTAINER", keyword |-> "MAINTAINER", args |-> <<Tok_x>>],
     [written |-> "maintainer", keyword |-> "MAINTAINER", args |-> <<Tok_x>>],
     [written |-> "ONBUILD", keyword |-> "ONBUILD", args |-> <<Tok_x>>],
     [written |-> "onbuild", keyword |-> "ONBUILD", args |-> <<Tok_x>>],
     [written |-> "RUN", keyword |-> "RUN", args |-> <<Tok_ls>>],
     [written |-> "run", keyword |-> "RUN", args |-> <<Tok_ls>>],
     [written |-> "WORKDIR", keyword |-> "WORKDIR", args |-> <<Tok_x>>],
     [written |-> "RUNCMD", keyword |-> "RUNCMD", args |-> <<Tok_x>>]}

AddOnbuild ==
    /\ pc = "edit"
    /\ Len(document) < MaxItems
    /\ \E trigger \in TriggerChoices :
          document' = Append(document, OnbuildInstruction("ONBUILD", trigger, <<>>))
    /\ UNCHANGED <<settings, problems, threw, pc>>
    /\ UNCHANGED <<buffer, formatting, request, edits, again, validator>>

NextOnbuild == AddFrom \/ AddOnbuild \/ Validate

SpecOnbuild == Init /\ [][NextOnbuild]_vars

(***************************************************************************)
(* Documents of instructions with variables in their arguments, with no    *)
(* modifier, with each supported modifier, with an unsupported one and     *)
(* with the empty one, in instructions of every kind checkVariables tells  *)
(* apart, on their own and as the trigger of ONBUILD.                      *)
(***************************************************************************)
MaxVariableItems == 2

VariableTokens ==
    {<<"x">>,
     <<"$", "x">>,
     <<"$", "{", "x", "}">>,
     <<"$", "{", "x", ":", "+", "y", "}">>,
     <<"$", "{", "x", ":", "-", "y", "}">>,
     <<"$", "{", "x", ":", "?", "}">>,
     <<"$", "{", "x", ":", "z", "}">>,
     <<"$", "{", "x", ":", "}">>}

SecondTokens ==
    {<<"$", "{", "y", ":", "+", "z", "}">>,
     <<"$", "{", "y", ":", "z", "}">>,
     <<"a", "$", "{", "y", ":", "}", "$", "{", "z", ":", "w", "}">>}

VariableArguments ==
    {<<first>> : first \in VariableTokens}
      \cup {<<first, second>> : first \in VariableTokens, second \in SecondTokens}

VariableKeywords == {"CMD", "ENTRYPOINT", "RUN", "USER", "VOLUME", "MAINTAINER", "WORKDIR"}

AddWithVariables ==
    /\ pc = "edit"
    /\ Len(document) < MaxVariableItems
    /\ \E keyword \in VariableKeywords, args \in VariableArguments, onbuild \in BOOLEAN :
          document' = Append(document,
                             IF onbuild /\ keyword \in {"CMD", "USER"}
                             THEN OnbuildInstruction("ONBUILD",
                                                     [written |-> keyword, keyword |-> keyword,
                                                      args |-> args], <<>>)
                             ELSE Instruction(keyword, keyword, args, <<>>))
    /\ UNCHANGED <<settings, problems, threw, pc>>
    /\ UNCHANGED <<buffer, formatting, request, edits, again, validator>>

NextVariables == AddFrom \/ AddWithVariables \/ ValidateDefault

SpecVariables == Init /\ [][NextVariables]_vars

(***************************************************************************)
(* Documents that open with parser directives: escape directives in lower  *)
(* and upper case, with valid and invalid values, and another directive.   *)
(***************************************************************************)
DirectiveCatalog ==
    {Directive(name, "escape", value) :
        name \in {"escape", "ESCAPE"}, value \in {"\\", Backtick, "a", ""}}
      \cup {Directive("syntax", "syntax", "a")}

AddParserDirective ==
    /\ pc = "edit"
    /\ Len(document) < MaxItems
    /\ \A i \in 1..Len(document) : document[i].type = "directive"
    /\ \E d \in DirectiveCatalog : document' = Append(document, d)
    /\ UNCHANGED <<settings, problems, threw, pc>>
    /\ UNCHANGED <<buffer, formatting, request, edits, again, validator>>

NextDirectives == AddParserDirective \/ AddFrom \/ Validate

SpecDirectives == Init /\ [][NextDirectives]_vars

(***************************************************************************)
(* Documents of CMD, ENTRYPOINT, RUN and VOLUME instructions whose         *)
(* arguments are lists in single quotes, well formed and not: a trailing   *)
(* comma, text after the closing bracket, a second opening bracket, a      *)
(* missing comma, a missing bracket, no quotes, double quotes.             *)
(***************************************************************************)
MaxJsonItems == 2

JsonArguments ==
    {<<<<"[", "'", "a", "'", "]">>>>,
     <<<<"[", "'", "a", "'", ",">>, <<"'", "b", "'", "]">>>>,
     <<<<"[", "'", "a", "'", ",", "]">>>>,
     <<<<"[">>, <<"'", "]", ",", "'", ",", "]">>>>,
     <<<<"[", "'", "a", "'", "]">>, <<"x">>>>,
     <<<<"[", "[", "'", "a", "'", "]">>>>,
     <<<<"[", "'", "a", "'">>, <<"'", "b", "'", "]">>>>,
     <<<<"[", "'", "a", "'">>>>,
     <<<<"[", "]">>>>,
     <<<<"[", "a", "]">>>>,
     <<<<"[", "\"", "a", "\"", "]">>>>,
     <<<<"x">>, <<"[", "'", "a", "'", "]">>>>,
     <<<<"[", ",", "'", "a", "'", "]">>>>,
     <<<<"[", "'", "a", "'", ",", ",", "'", "b", "'", "]">>>>,
     <<<<"[", "'", "a">>>>,
     <<<<"[", "'", "a", "'", "b", "'", "]">>>>,
     <<<<"l", "s">>>>}

JsonKeywords == {"CMD", "ENTRYPOINT", "RUN", "VOLUME"}

AddJson ==
    /\ pc = "edit"
    /\ Len(document) < MaxJsonItems
    /\ \E keyword \in JsonKeywords, args \in JsonArguments :
          document' = Append(document, Instruction(keyword, keyword, args, <<>>))
    /\ UNCHANGED <<settings, problems, threw, pc>>
    /\ UNCHANGED <<buffer, formatting, request, edits, again, validator>>

NextJson == AddFrom \/ AddJson \/ Validate

SpecJson == Init /\ [][NextJson]_vars

(***************************************************************************)
(* Repeated flags.  The document is FROM a, then one of ADD a b, COPY a b  *)
(* and HEALTHCHECK CMD ls, to which flags are added one by one; validate   *)
(* is then called without settings.                                        *)
(***************************************************************************)
MaxDuplicateFlags == 3

FlaggedChoices ==
    {Instruction("ADD", "ADD", <<Tok_a, Tok_b>>, <<>>),
     Instruction("COPY", "COPY", <<Tok_a, Tok_b>>, <<>>),
     Instruction("HEALTHCHECK", "HEALTHCHECK", <<<<"C", "M", "D">>, Tok_ls>>, <<>>)}

(* Flags written --name and --name=1s. *)
FlagChoices ==
    {Flag(name, FALSE, <<>>) : name \in {"chown", "link", "interval", "retries"}}
      \cup {Flag(name, TRUE, <<[magnitude |-> <<"1">>, tenths |-> 10, unit |-> <<"s">>]>>) :
              name \in {"chown", "link", "interval", "retries"}}

AddFlagged ==
    /\ pc = "edit"
    /\ document = <<>>
    /\ \E ins \in FlaggedChoices :
          document' = <<Instruction("FROM", "FROM", <<Tok_a>>, <<>>), ins>>
    /\ UNCHANGED <<settings, problems, threw, pc>>
    /\ UNCHANGED <<buffer, formatting, request, edits, again, validator>>

RepeatFlag ==
    /\ pc = "edit"
    /\ document # <<>>
    /\ Len(document[2].flags) < MaxDuplicateFlags
    /\ \E flag \in FlagChoices :
          document' = [document EXCEPT ![2].flags = Append(@, flag)]
    /\ UNCHANGED <<settings, problems, threw, pc>>
    /\ UNCHANGED <<buffer, formatting, request, edits, again, validator>>

NextFlags == AddFlagged \/ RepeatFlag \/ ValidateDefault

SpecFlags == Init /\ [][NextFlags]_vars

(***************************************************************************)
(* Properties.                                                             *)
(***************************************************************************)
Done == pc = "done"

(* The diagnostics validate returned. *)
Returned == {problems[i] : i \in 1..Len(problems)}

WithCode(code) == {p \in Returned : p.code = code}

(* A position of the document: a line it has, a column of that line. *)
InDocument(pos) ==
    /\ pos.line >= 0
    /\ pos.line < lineCount(document)
    /\ pos.character >= 0
    /\ pos.character <= LineWidth(document, pos.line)

(* The settings object with every unspecified key set to a severity. *)
Filled(object, severity) ==
    SettingsObject([k \in SettingKeys |->
                      IF object[k] = Undefined THEN severity ELSE object[k]])

(* The code each setting governs, and for the three keys that share        *)
(* MULTIPLE_INSTRUCTIONS the instruction kind each governs.                *)
RuleCode ==
    [k \in SettingKeys |->
       CASE k = "deprecatedMaintainer" -> "DEPRECATED_MAINTAINER"
         [] k = "directiveCasing" -> "CASING_DIRECTIVE"
         [] k = "emptyContinuationLine" -> "EMPTY_CONTINUATION_LINE"
         [] k = "instructionCasing" -> "CASING_INSTRUCTION"
         [] k = "instructionJSONInSingleQuotes" -> "JSON_IN_SINGLE_QUOTES"
         [] k = "instructionWorkdirRelative" -> "WORKDIR_IS_NOT_ABSOLUTE"
         [] OTHER -> "MULTIPLE_INSTRUCTIONS"]

MultipleKeys ==
    {"instructionCmdMultiple", "instructionEntrypointMultiple",
     "instructionHealthcheckMultiple"}

MultipleKind ==
    [k \in MultipleKeys |->
       CASE k = "instructionCmdMultiple" -> "CMD"
         [] k = "instructionEntrypointMultiple" -> "ENTRYPOINT"
         [] OTHER -> "HEALTHCHECK"]

SettingCodes == {RuleCode[k] : k \in SettingKeys}

(* C1: validate returns a list of diagnostics and throws no exception,     *)
(* whatever the document contains.                                         *)
C1_ValidateNeverThrows == Done => ~threw

(* C2 as stated: every returned diagnostic's range starts and ends at a    *)
(* position of the document.                                               *)
C2_RangesWithinDocument ==
    Done => \A p \in Returned : InDocument(p.range.start) /\ InDocument(p.range.end)

(* C2, amended: every returned diagnostic's range starts at a position of  *)
(* the document and ends at one, except that the range of an               *)
(* EMPTY_CONTINUATION_LINE diagnostic may end at column 0 of the line      *)
(* right after the document's last line.                                   *)
C2_RangesWithinDocumentOrOneLinePast ==
    Done => \A p \in Returned :
              /\ InDocument(p.range.start)
              /\ \/ InDocument(p.range.end)
                 \/ /\ p.code = "EMPTY_CONTINUATION_LINE"
                    /\ p.range.end = Pos(lineCount(document), 0)

C2_Witness ==
    /\ Done
    /\ \E p \in Returned : /\ p.code = "EMPTY_CONTINUATION_LINE"
                           /\ p.range.end.line = lineCount(document)

(* C3: when a comment with the exact content "dockerfile-utils: ignore"    *)
(* is on line L, validate returns no diagnostic whose instructionLine is   *)
(* L + 1.                                                                  *)
C3_IgnoreCommentSuppresses ==
    Done => \A k \in 1..Len(document) :
              (document[k].type = "comment" /\ document[k].content = IGNORE_COMMENT)
                => \A p \in Returned : p.instructionLine # StartLine(document, k) + 1

(* An unknown instruction right under an ignore comment: its               *)
(* UNKNOWN_INSTRUCTION diagnostic is not returned.                         *)
C3_Witness ==
    /\ Done /\ ~threw
    /\ \E k \in 1..(Len(document) - 1) :
          /\ document[k].type = "comment" /\ document[k].content = IGNORE_COMMENT
          /\ document[k + 1].type = "instruction"
          /\ document[k + 1].keyword \notin KEYWORDS
    /\ WithCode("UNKNOWN_INSTRUCTION") = {}

(* C4 as stated: a key the settings object leaves unspecified is applied   *)
(* at WARNING, exactly as if the object had set it to WARNING.             *)
C4_UnspecifiedKeyIsWarning ==
    (Done /\ settings.given)
      => validate(document, Filled(settings.object, "WARNING"))
           = [threw |-> threw, problems |-> problems]

(* C4, amended: a rule whose key the settings object leaves unspecified is *)
(* not applied, exactly as if the object had set the key to IGNORE; the    *)
(* default severity WARNING applies to every rule only when validate is    *)
(* given no settings object.                                               *)
C4_UnspecifiedKeyIsNotApplied ==
    Done => IF settings.given
            THEN validate(document, Filled(settings.object, "IGNORE"))
                   = [threw |-> threw, problems |-> problems]
            ELSE validate(document, SettingsObject(DefaultSettings))
                   = [threw |-> threw, problems |-> problems]

(* A settings object with an unspecified key whose rule has something to   *)
(* report in the document.                                                 *)
C4_Witness ==
    /\ Done /\ ~threw /\ settings.given
    /\ \E k \in SettingKeys : settings.object[k] = Undefined
    /\ Len(validate(document, Filled(settings.object, "WARNING")).problems)
         > Len(problems)

(* C5 as stated: when the settings object sets a key to IGNORE, no         *)
(* returned diagnostic carries that rule's code, whatever the other keys.  *)
C5_IgnoredRuleCodeAbsent ==
    (Done /\ settings.given)
      => \A k \in SettingKeys :
            settings.object[k] = "IGNORE" => WithCode(RuleCode[k]) = {}

(* C5, amended: when the settings object sets a key to IGNORE, validate    *)
(* returns no diagnostic of that rule: none with the rule's code for the   *)
(* six keys that have a code of their own, and for instructionCmdMultiple, *)
(* instructionEntrypointMultiple and instructionHealthcheckMultiple no     *)
(* MULTIPLE_INSTRUCTIONS diagnostic for CMD, ENTRYPOINT or HEALTHCHECK     *)
(* respectively.                                                           *)
C5_IgnoredRuleSilent ==
    (Done /\ settings.given)
      => \A k \in SettingKeys :
            settings.object[k] = "IGNORE"
              => IF k \in MultipleKeys
                 THEN \A p \in WithCode("MULTIPLE_INSTRUCTIONS") :
                         p.message # <<MultipleKind[k]>>
                 ELSE WithCode(RuleCode[k]) = {}

(* A key set to IGNORE whose rule has something to report in the document. *)
C5_Witness ==
    /\ Done /\ ~threw /\ settings.given
    /\ \E k \in MultipleKeys :
          /\ settings.object[k] = "IGNORE"
          /\ LET default == validate(document, NoSettings).problems
             IN \E i \in 1..Len(default) :
                   /\ default[i].code = "MULTIPLE_INSTRUCTIONS"
                   /\ default[i].message = <<MultipleKind[k]>>

(* C6: with every setting IGNORE, validate returns only diagnostics that   *)
(* it also returns with the default settings, and none whose code is tied  *)
(* to a setting.                                                           *)
C6_AllIgnoreIsSubsetOfDefault ==
    (Done /\ settings = SettingsObject([k \in SettingKeys |-> "IGNORE"]))
      => LET default == validate(document, NoSettings)
         IN /\ default.threw = threw
            /\ Returned \subseteq {default.problems[i] : i \in 1..Len(default.problems)}
            /\ \A p \in Returned : p.code \notin SettingCodes

C6_Witness ==
    /\ Done /\ ~threw
    /\ settings = SettingsObject([k \in SettingKeys |-> "IGNORE"])
    /\ Len(problems) > 0
    /\ Len(validate(document, NoSettings).problems) > Len(problems)

(* C7: changing one setting between WARNING and ERROR changes only the     *)
(* severity field: the two runs return equally many diagnostics, with the  *)
(* same codes and ranges (and every other field) in the same order.        *)
SwitchedSeverity(k) ==
    SettingsObject([settings.object EXCEPT
                      ![k] = IF settings.object[k] = "WARNING" THEN "ERROR" ELSE "WARNING"])

SameButSeverity(p, q) == [p EXCEPT !.severity = q.severity] = q

C7_SeverityOnly ==
    (Done /\ settings.given)
      => \A k \in SettingKeys :
            settings.object[k] \in {"WARNING", "ERROR"}
              => LET other == validate(document, SwitchedSeverity(k))
                 IN /\ other.threw = threw
                    /\ Len(other.problems) = Len(problems)
                    /\ \A i \in 1..Len(problems) :
                          SameButSeverity(problems[i], other.problems[i])

(* A switch that does change the severity of a returned diagnostic. *)
C7_Witness ==
    /\ Done /\ ~threw /\ settings.given
    /\ \E k \in SettingKeys :
          /\ settings.object[k] \in {"WARNING", "ERROR"}
          /\ validate(document, SwitchedSeverity(k)).problems # problems

(* The instructions of the document, in order. *)
Instructions == getInstructions(document)

(* The number of returned diagnostics with a code, and with a code and a   *)
(* range.                                                                  *)
CountCode(code) == Cardinality({i \in 1..Len(problems) : problems[i].code = code})

CountCodeAt(code, range) ==
    Cardinality({i \in 1..Len(problems) :
                   problems[i].code = code /\ problems[i].range = range})

(* Instruction i is the first that is neither FROM nor ARG, and no FROM    *)
(* comes before it.                                                        *)
FirstBeforeAnyFROM(i) ==
    /\ Instructions[i].keyword \notin {"FROM", "ARG"}
    /\ \A j \in 1..(i - 1) : Instructions[j].keyword = "ARG"

UnderIgnoreComment(line) == (line - 1) \in IgnoredLines(document)

(* C8: when there are instructions and not only ARGs, NO_SOURCE_IMAGE is   *)
(* reported exactly once, on the keyword range of the first instruction    *)
(* that is neither FROM nor ARG, if it comes before any FROM, and not at   *)
(* all if a FROM comes first; that instruction and the later ones are      *)
(* still validated (an unknown keyword among them is reported, unless an   *)
(* ignore comment covers it).                                              *)
C8_NoSourceImageOnce ==
    (/\ Done
     /\ Len(Instructions) > 0
     /\ \E i \in 1..Len(Instructions) : Instructions[i].keyword # "ARG")
      => /\ CountCode("NO_SOURCE_IMAGE")
              = (IF \E i \in 1..Len(Instructions) : FirstBeforeAnyFROM(i) THEN 1 ELSE 0)
         /\ \A i \in 1..Len(Instructions) :
               FirstBeforeAnyFROM(i)
                 => \E p \in WithCode("NO_SOURCE_IMAGE") : p.range = Instructions[i].kwRange
         /\ \A i \in 1..Len(Instructions) :
               (/\ Instructions[i].keyword \notin KEYWORDS
                /\ ~UnderIgnoreComment(Instructions[i].line))
                 => \E p \in WithCode("UNKNOWN_INSTRUCTION") :
                       p.range = Instructions[i].kwRange

(* C9 as stated: UNKNOWN_INSTRUCTION is the only diagnostic reported on    *)
(* the keyword of an instruction whose keyword is not recognised.          *)
C9_OnlyUnknownInstruction ==
    Done => \A i \in 1..Len(Instructions) :
              Instructions[i].keyword \notin KEYWORDS
                => \A p \in Returned :
                      p.range = Instructions[i].kwRange => p.code = "UNKNOWN_INSTRUCTION"

(* C9, amended: the only diagnostics reported on the keyword of an         *)
(* instruction whose keyword is not recognised are UNKNOWN_INSTRUCTION     *)
(* and, when the instruction is the first that is neither FROM nor ARG and *)
(* no FROM comes before it, NO_SOURCE_IMAGE.                               *)
C9_OnlyUnknownInstructionOrNoSourceImage ==
    Done => \A i \in 1..Len(Instructions) :
              Instructions[i].keyword \notin KEYWORDS
                => \A p \in Returned :
                      p.range = Instructions[i].kwRange
                        => \/ p.code = "UNKNOWN_INSTRUCTION"
                           \/ p.code = "NO_SOURCE_IMAGE" /\ FirstBeforeAnyFROM(i)

(* An unknown keyword written in lower case, first in the document: both   *)
(* diagnostics are on it.                                                  *)
C9_Witness ==
    /\ Done /\ ~threw
    /\ \E i \in 1..Len(Instructions) :
          /\ Instructions[i].keyword \notin KEYWORDS
          /\ Instructions[i].keyword # Instructions[i].instruction
          /\ \E p \in WithCode("UNKNOWN_INSTRUCTION") : p.range = Instructions[i].kwRange
          /\ \E p \in WithCode("NO_SOURCE_IMAGE") : p.range = Instructions[i].kwRange

(* The build stage of instruction i: the number of FROMs up to it. *)
Stage(i) == Cardinality({j \in 1..i : Instructions[j].keyword = "FROM"})

LastOfKindInStage(i) ==
    ~\E j \in (i + 1)..Len(Instructions) :
        Instructions[j].keyword = Instructions[i].keyword /\ Stage(j) = Stage(i)

(* C10: in each build stage, for each of CMD, ENTRYPOINT and HEALTHCHECK   *)
(* whose setting is not IGNORE, every instruction of that kind but the     *)
(* last of the stage gets exactly one MULTIPLE_INSTRUCTIONS diagnostic     *)
(* tagged Unnecessary, and the last one gets none.                         *)
C10_MultipleInstructionsPerStage ==
    Done => \A k \in MultipleKeys :
              ValidatorSettingsOf(settings)[k] # "IGNORE"
                => \A i \in 1..Len(Instructions) :
                      Instructions[i].keyword = MultipleKind[k]
                        => /\ CountCodeAt("MULTIPLE_INSTRUCTIONS", Instructions[i].kwRange)
                                = (IF LastOfKindInStage(i) THEN 0 ELSE 1)
                           /\ \A p \in WithCode("MULTIPLE_INSTRUCTIONS") :
                                 "Unnecessary" \in p.tags

(* The FROM instructions that have an AS name, and how often the name of   *)
(* one of them occurs among them, compared without regard to case.         *)
NamedFROMIndexes ==
    {i \in 1..Len(Instructions) :
        Instructions[i].keyword = "FROM" /\ hasBuildStage(Instructions[i])}

Occurrences(i) ==
    Cardinality({j \in NamedFROMIndexes :
                   toLowerCase(getBuildStage(Instructions[j]))
                     = toLowerCase(getBuildStage(Instructions[i]))})

(* C11: among the FROM instructions with an AS name, compared without      *)
(* regard to case, every FROM whose name occurs twice or more gets exactly *)
(* one DUPLICATE_BUILD_STAGE_NAME on the range of its name, and a FROM     *)
(* whose name occurs once gets none.                                       *)
C11_DuplicateBuildStageNames ==
    Done => \A i \in NamedFROMIndexes :
              CountCodeAt("DUPLICATE_BUILD_STAGE_NAME", Instructions[i].args[3].range)
                = (IF Occurrences(i) >= 2 THEN 1 ELSE 0)

(***************************************************************************)
(* Properties of the formatter.                                            *)
(***************************************************************************)
Formatted == pc = "formatted"

Edits == {edits[i] : i \in 1..Len(edits)}

(* C12: applying the edits of format(D, O) to D and formatting the result  *)
(* again with O returns no edit.                                           *)
C12_FormatIsIdempotent == pc = "reformatted" => again = <<>>

(* A text was indented on one line and trimmed on another, and formatted   *)
(* again.                                                                  *)
C12_Witness ==
    /\ pc = "reformatted"
    /\ \E e \in Edits : e.newText # <<>>
    /\ \E e \in Edits : e.newText = <<>>

Before(p, q) ==
    p.line < q.line \/ (p.line = q.line /\ p.character <= q.character)

Overlapping(a, b) ==
    \/ ~(Before(a.range.end, b.range.start) \/ Before(b.range.end, a.range.start))
    \/ a.range.start = b.range.start

Orders(n) == {p \in [1..n -> 1..n] : \A i, j \in 1..n : p[i] = p[j] => i = j}

(* C13: the edits the formatter returns (format, formatRange,              *)
(* formatOnType) do not overlap one another, and applying them in any      *)
(* order gives the same text.                                              *)
C13_EditsDoNotOverlap ==
    Formatted =>
       /\ \A i, j \in 1..Len(edits) : i # j => ~Overlapping(edits[i], edits[j])
       /\ \A p \in Orders(Len(edits)) :
             ApplyEdits(buffer, [i \in 1..Len(edits) |-> edits[p[i]]])
               = ApplyEdits(buffer, edits)

(* formatRange returned three edits or more. *)
C13_Witness == Formatted /\ request.kind = "range" /\ Len(edits) >= 3

(* One indentation unit under the given options: a tab, or tabSize spaces. *)
IndentationUnit(o) ==
    IF o.given /\ o.insertSpaces THEN [i \in 1..o.tabSize |-> " "] ELSE <<"\t">>

(* C14: every edit replaces a range that starts at column 0 and covers     *)
(* only spaces and tabs, by nothing or by exactly one indentation unit.    *)
C14_EditsOnlyTouchLeadingWhitespace ==
    Formatted =>
       \A e \in Edits :
          /\ e.range.start.character = 0
          /\ e.range.end.line = e.range.start.line
          /\ \A k \in (offsetAt(buffer, e.range.start) + 1)..offsetAt(buffer, e.range.end) :
                buffer[k] \in Whitespace
          /\ e.newText \in {<<>>, IndentationUnit(formatting)}

(* An edit replaced leading whitespace by an indentation of two spaces. *)
C14_Witness ==
    /\ Formatted
    /\ \E e \in Edits : /\ e.range.end.character > 0
                        /\ e.newText = <<" ", " ">>

(* The lines of the heredocs of a text: from the first content or          *)
(* delimiter line to the delimiter, or to the end of the content.          *)
HeredocLines(text) ==
    LET instructions == parse(text).instructions IN
    UNION {UNION {IF h.contentRange.null /\ h.delimiterRange.null THEN {}
                  ELSE (IF h.contentRange.null THEN h.delimiterRange.start.line
                        ELSE h.contentRange.start.line)
                       ..(IF h.delimiterRange.null THEN h.contentRange.end.line
                          ELSE h.delimiterRange.end.line) :
                  h \in {instructions[k].heredocs[n] :
                           n \in 1..Len(instructions[k].heredocs)}} :
           k \in 1..Len(instructions)}

(* C15: format and formatRange return no edit on a line of a heredoc,      *)
(* whatever leading whitespace the line has.                               *)
C15_NoEditOnHeredocLines ==
    Formatted /\ request.kind \in {"document", "range"} =>
       \A e \in Edits : e.range.start.line \notin HeredocLines(buffer)

(* A text with an indented heredoc line was formatted and other lines of   *)
(* it were edited.                                                         *)
C15_Witness ==
    /\ Formatted
    /\ request.kind = "document"
    /\ edits # <<>>
    /\ \E l \in HeredocLines(buffer) : TextLines(buffer)[l + 1].indent # <<>>

CursorLine == request.range.start.line

(* What follows the cursor on its line is spaces and tabs only. *)
OnlyWhitespaceAfterCursor ==
    LET line == TextLines(buffer)[CursorLine + 1]
        chars == line.indent \o line.body
    IN  \A k \in (request.range.start.character + 1)..Len(chars) :
           chars[k] \in Whitespace

(* C16: formatOnType returns no edit unless the typed character is the     *)
(* escape character, the cursor is neither in a comment nor in a parser    *)
(* directive, and only spaces, tabs or a terminator follow the cursor on   *)
(* its line.                                                               *)
C16_OnTypeConditions ==
    Formatted /\ request.kind = "onType" /\ edits # <<>> =>
       /\ request.ch = parse(buffer).escape
       /\ CursorLine \notin parse(buffer).comments
       /\ CursorLine \notin parse(buffer).directives
       /\ OnlyWhitespaceAfterCursor

(***************************************************************************)
(* Properties of the HEALTHCHECK duration flags.                           *)
(***************************************************************************)
DurationFlagNames == {"interval", "start-period", "timeout", "start-interval"}

(* The flags whose value is one pair or more, each a magnitude             *)
(* \d+(\.\d+)? and one of the units h, m, s, ms, us, µs, ns.               *)
DurationFlags ==
    {k \in 1..Len(HealthcheckFlags) :
        /\ HealthcheckFlags[k].name \in DurationFlagNames
        /\ HealthcheckFlags[k].pairs # <<>>
        /\ \A n \in 1..Len(HealthcheckFlags[k].pairs) :
              /\ HealthcheckFlags[k].pairs[n].tenths >= 0
              /\ HealthcheckFlags[k].pairs[n].magnitude \notin {<<".">>, <<"-">>}
              /\ HealthcheckFlags[k].pairs[n].unit \in DurationUnits}

(* The sum of the pairs in tenths of a nanosecond, one millisecond         *)
(* standing for any sum from one millisecond up.                           *)
Total(pairs) ==
    LET Worth(pair) ==
            IF pair.tenths = 0 THEN 0
            ELSE IF pair.unit = <<"n", "s">> THEN pair.tenths
            ELSE IF pair.unit \in {<<"u", "s">>, <<"µ", "s">>} THEN pair.tenths * 1000
            ELSE IF pair.unit = <<"m", "s">> /\ pair.tenths < 10 THEN pair.tenths * 1000000
            ELSE OneMillisecond
        RECURSIVE Sum(_)
        Sum(n) == IF n = 0 THEN 0 ELSE Sum(n - 1) + Worth(pairs[n])
    IN  IF Sum(Len(pairs)) >= OneMillisecond THEN OneMillisecond ELSE Sum(Len(pairs))

FlagNode(k) == Instructions[2].flags[k]

LessThan1msReported(k) ==
    \E p \in WithCode("FLAG_LESS_THAN_1MS") : p.range = FlagNode(k).nameRange

DurationProblems(k) ==
    {p \in Returned :
        /\ p.code \in {"FLAG_LESS_THAN_1MS", "FLAG_MISSING_DURATION",
                       "FLAG_UNKNOWN_UNIT", "FLAG_INVALID_DURATION"}
        /\ p.range \in {FlagNode(k).nameRange, FlagNode(k).valueRange}}

(* C17: a duration flag whose pairs sum to less than one millisecond gets  *)
(* FLAG_LESS_THAN_1MS.                                                     *)
C17_ShortDurationReported ==
    Done => \A k \in DurationFlags :
               Total(HealthcheckFlags[k].pairs) < OneMillisecond
                  => LessThan1msReported(k)

ExposeArgs ==
    {ia \in (1..Len(Instructions)) \X (1..2) :
        /\ Instructions[ia[1]].keyword = "EXPOSE"
        /\ ia[2] <= Len(Instructions[ia[1]].args)}

ExposeArg(ia) == Instructions[ia[1]].args[ia[2]]

(* Where the protocol of a port/protocol argument starts and ends in the   *)
(* argument: after the first slash, up to the next slash or the end.       *)
ProtocolSpan(value) ==
    LET slashes == {i \in 1..Len(value) : value[i] = "/"}
        Least(set) == CHOOSE i \in set : \A k \in set : i <= k
        first == Least(slashes)
        later == {i \in slashes : i > first}
    IN  [from |-> first, to |-> IF later = {} THEN Len(value) ELSE Least(later) - 1]

(* The argument is a port with a protocol other than tcp, udp and sctp. *)
HasInvalidProtocol(value) ==
    /\ \E i \in 2..Len(value) :
          /\ value[i] = "/"
          /\ \A k \in 1..(i - 1) : value[k] \in Digits
    /\ ProtocolSpan(value).to > ProtocolSpan(value).from
    /\ toLowerCase(SubSeq(value, ProtocolSpan(value).from + 1, ProtocolSpan(value).to))
          \notin {<<"t", "c", "p">>, <<"u", "d", "p">>, <<"s", "c", "t", "p">>}

ProtocolRange(arg) ==
    LineRng(arg.range.start.line,
            arg.range.start.character + ProtocolSpan(arg.value).from,
            arg.range.start.character + ProtocolSpan(arg.value).to)

(* C19: an EXPOSE argument with a protocol other than tcp, udp and sctp    *)
(* gets INVALID_PROTO on exactly the protocol, wherever the argument is.   *)
C19_InvalidProtoCoversProtocol ==
    Done => \A ia \in ExposeArgs :
               HasInvalidProtocol(ExposeArg(ia).value)
                  => \E p \in WithCode("INVALID_PROTO") :
                        p.range = ProtocolRange(ExposeArg(ia))

(***************************************************************************)
(* Properties of a reused instance.  DockerFormatter declares no field:    *)
(* its methods are the operators above, of their arguments only.           *)
(***************************************************************************)
(* C20: what a Validator that has validated other documents returns for a  *)
(* document is what a new Validator with the same settings returns.        *)
C20_ReusedValidatorAsFresh ==
    Done /\ validator.constructed
       => [threw |-> threw, problems |-> problems] = validate(document, settings)

(* The instance has validated another document before this one, and this   *)
(* one has a diagnostic that is computed through this.document.            *)
C20_Witness ==
    /\ Done
    /\ Len(validator.processed) = 2
    /\ validator.processed[1] # validator.processed[2]
    /\ validator.processed[1] # <<>>
    /\ WithCode("INVALID_PROTO") # {}

(***************************************************************************)
(* Properties of blank continuation lines.  The lines of an instruction    *)
(* that the check looks at are its lines without the heredoc content       *)
(* lines; a run is a maximal stretch of whitespace-only lines among them.  *)
(***************************************************************************)
MultiLine == {i \in 1..Len(Instructions) : Instructions[i].line # Instructions[i].endLine}

LinesChecked(ins) ==
    SelectSeq([k \in 1..(ins.endLine - ins.line + 1) |-> ins.line + k - 1],
              LAMBDA l : l = ins.line \/ ins.cont[l - ins.line] \notin HeredocContent)

WhitespaceOnly(ins, l) ==
    l > ins.line /\ ins.cont[l - ins.line] \in {"blank", "blankContent"}

BlankRuns(ins) ==
    LET Runs(lines) ==
          {r \in (1..Len(lines)) \X (1..Len(lines)) :
             /\ r[1] <= r[2]
             /\ \A k \in r[1]..r[2] : WhitespaceOnly(ins, lines[k])
             /\ r[1] > 1 => ~WhitespaceOnly(ins, lines[r[1] - 1])
             /\ r[2] < Len(lines) => ~WhitespaceOnly(ins, lines[r[2] + 1])}
        Ranges(lines) ==
          {Rng(Pos(lines[r[1]], 0), Pos(lines[r[2]] + 1, 0)) : r \in Runs(lines)}
    IN Ranges(LinesChecked(ins))

AllBlankRuns == UNION {BlankRuns(Instructions[i]) : i \in MultiLine}

EmptyContinuationLineApplied ==
    ValidatorSettingsOf(settings)["emptyContinuationLine"] \in {"WARNING", "ERROR"}

Onbuilds == {i \in 1..Len(Instructions) : Instructions[i].hasTrigger}

RuleApplied(key) == ValidatorSettingsOf(settings)[key] \in {"WARNING", "ERROR"}

(* The diagnostics of the instruction that starts on a line. *)
OfInstructionLine(line) == {p \in Returned : p.instructionLine = line}

DisallowedCode(trigger) ==
    CASE trigger \in {"FROM", "MAINTAINER"} -> "ONBUILD_TRIGGER_DISALLOWED"
      [] trigger = "ONBUILD" -> "ONBUILD_CHAINING_DISALLOWED"
      [] OTHER -> "none"

OnbuildCodes == {"ONBUILD_TRIGGER_DISALLOWED", "ONBUILD_CHAINING_DISALLOWED"}

(* C22, as stated: an ONBUILD whose trigger is FROM, MAINTAINER or ONBUILD *)
(* gets ONBUILD_TRIGGER_DISALLOWED or ONBUILD_CHAINING_DISALLOWED on the   *)
(* trigger keyword and nothing from the rules of the triggered             *)
(* instruction.                                                            *)
C22_DisallowedTriggerNotValidated ==
    Done => \A i \in Onbuilds :
               Instructions[i].trigger \in {"FROM", "MAINTAINER", "ONBUILD"}
                  => /\ CountCodeAt(DisallowedCode(Instructions[i].trigger),
                                    Instructions[i].triggerRange) = 1
                     /\ \A p \in OfInstructionLine(Instructions[i].line) :
                           p.code \in OnbuildCodes

(* C22, amended: the diagnostic ONBUILD_TRIGGER_DISALLOWED (FROM,          *)
(* MAINTAINER) or ONBUILD_CHAINING_DISALLOWED (ONBUILD) is reported once   *)
(* on the trigger keyword, and for no other trigger; the rules of the      *)
(* triggered instruction are applied whatever the trigger keyword is:      *)
(* unknown keyword, casing, MAINTAINER deprecation and a missing argument  *)
(* of FROM are reported on a disallowed trigger too.                       *)
C22_EveryTriggerValidated ==
    Done => \A i \in Onbuilds :
               LET ins == Instructions[i]
                   t   == document[i].trigger
               IN /\ \A code \in OnbuildCodes :
                        CountCodeAt(code, ins.triggerRange)
                           = (IF code = DisallowedCode(ins.trigger) THEN 1 ELSE 0)
                  /\ CountCodeAt("UNKNOWN_INSTRUCTION", ins.triggerRange)
                        = (IF t.keyword \in KEYWORDS THEN 0 ELSE 1)
                  /\ CountCodeAt("CASING_INSTRUCTION", ins.triggerRange)
                        = (IF t.keyword \in KEYWORDS /\ t.written # t.keyword
                              /\ RuleApplied("instructionCasing") THEN 1 ELSE 0)
                  /\ CountCodeAt("DEPRECATED_MAINTAINER", ins.triggerRange)
                        = (IF t.keyword = "MAINTAINER" /\ RuleApplied("deprecatedMaintainer")
                           THEN 1 ELSE 0)
                  /\ CountCodeAt("ARGUMENT_MISSING", ins.triggerRange)
                        = (IF t.keyword = "FROM" /\ t.args = <<>> THEN 1 ELSE 0)

(* ONBUILD maintainer, ONBUILD FROM without an image and ONBUILD onbuild   *)
(* validated with the default settings.                                    *)
C22_Witness ==
    /\ Done /\ settings = NoSettings
    /\ \E i \in Onbuilds : document[i].trigger.written = "maintainer"
    /\ \E i \in Onbuilds : document[i].trigger.keyword = "FROM" /\ document[i].trigger.args = <<>>
    /\ \E i \in Onbuilds : document[i].trigger.written = "onbuild"
    /\ CountCode("DEPRECATED_MAINTAINER") = 1
    /\ CountCode("ONBUILD_TRIGGER_DISALLOWED") = 2
    /\ CountCode("ONBUILD_CHAINING_DISALLOWED") = 1

(***************************************************************************)
(* Properties of variables.  The instruction of a variable is the          *)
(* instruction of the document whose getVariables lists it: a variable in  *)
(* the trigger of an ONBUILD instruction is a variable of that ONBUILD.    *)
(***************************************************************************)
VariablesOf(i) ==
    LET Each(variables) ==
          {[instruction |-> i, variable |-> variables[k]] : k \in 1..Len(variables)}
    IN Each(getVariables(Instructions[i]))

Variables == UNION {VariablesOf(i) : i \in 1..Len(Instructions)}

Unsupported(occurrence) ==
    /\ occurrence.variable.hasModifier
    /\ occurrence.variable.modifier \notin {"+", "-", "?"}
    /\ Instructions[occurrence.instruction].keyword \notin {"CMD", "ENTRYPOINT", "RUN"}

(* The UNSUPPORTED_MODIFIER diagnostics that lie on a variable. *)
ReportsOn(variable) ==
    {k \in 1..Len(problems) :
        /\ problems[k].code = "UNSUPPORTED_MODIFIER"
        /\ problems[k].range.start.line = variable.range.start.line
        /\ problems[k].range.start.character >= variable.range.start.character
        /\ problems[k].range.end.character <= variable.range.end.character}

(* C23: a variable gets UNSUPPORTED_MODIFIER, once, exactly when it has a  *)
(* modifier other than +, - and ? and its instruction is not CMD,          *)
(* ENTRYPOINT or RUN; the diagnostic is on the whole variable when the     *)
(* modifier is empty and on the modifier otherwise; UNSUPPORTED_MODIFIER   *)
(* is reported for nothing else.                                           *)
C23_UnsupportedModifierExactly ==
    Done => /\ \A o \in Variables :
                  /\ Cardinality(ReportsOn(o.variable)) = (IF Unsupported(o) THEN 1 ELSE 0)
                  /\ Unsupported(o) =>
                        CountCodeAt("UNSUPPORTED_MODIFIER",
                                    IF o.variable.modifier = "" THEN o.variable.range
                                    ELSE o.variable.modifierRange) = 1
            /\ CountCode("UNSUPPORTED_MODIFIER")
                  = Cardinality({o \in Variables : Unsupported(o)})

(* A RUN and a USER with the same unsupported modifier z, the USER with an *)
(* empty modifier too: two diagnostics, none for RUN.                      *)
C23_Witness ==
    /\ Done
    /\ \E o \in Variables : /\ Instructions[o.instruction].keyword = "RUN"
                            /\ o.variable.modifier = "z"
    /\ \E o \in Variables : /\ Instructions[o.instruction].keyword = "USER"
                            /\ o.variable.modifier = "z"
    /\ \E o \in Variables : /\ Instructions[o.instruction].keyword = "USER"
                            /\ o.variable.hasModifier /\ o.variable.modifier = ""
    /\ \E o \in Variables : ~o.variable.hasModifier
    /\ CountCode("UNSUPPORTED_MODIFIER") = 3

(***************************************************************************)
(* Properties of parser directives.                                        *)
(***************************************************************************)
Escapes == SelectSeq(getDirectives(document), LAMBDA d : d.directive = "escape")

DuplicateRange(d) == Rng(d.nameRange.start, d.valueRange.end)

RetriesFlags ==
    {k \in 1..Len(HealthcheckFlags) :
        /\ HealthcheckFlags[k].name = "retries"
        /\ HealthcheckFlags[k].hasValue
        /\ FlagValue(HealthcheckFlags[k]) # <<>>}

(* The whole text is an optional minus sign and one digit or more. *)
IsInteger(text) ==
    LET from == IF text # <<>> /\ text[1] = "-" THEN 2 ELSE 1
    IN /\ from <= Len(text)
       /\ \A i \in from..Len(text) : text[i] \in Digits

IsIntegerFromOne(text) ==
    /\ IsInteger(text)
    /\ text[1] # "-"
    /\ \E i \in 1..Len(text) : text[i] # "0"

RetriesProblems(k) ==
    {p.code : p \in {q \in Returned : /\ q.range = FlagNode(k).valueRange
                                       /\ q.code \in {"INVALID_SYNTAX", "FLAG_AT_LEAST_ONE"}}}

(* C25: a --retries value that is an integer from 1 up gets no diagnostic, *)
(* a value that is not an integer gets INVALID_SYNTAX, and an integer      *)
(* below 1 gets FLAG_AT_LEAST_ONE.                                         *)
C25_RetriesIsStrictInteger ==
    Done => \A k \in RetriesFlags :
               RetriesProblems(k)
                  = (IF IsIntegerFromOne(FlagValue(HealthcheckFlags[k])) THEN {}
                     ELSE IF IsInteger(FlagValue(HealthcheckFlags[k]))
                     THEN {"FLAG_AT_LEAST_ONE"}
                     ELSE {"INVALID_SYNTAX"})

(***************************************************************************)
(* Properties of the scan for JSON in single quotes.  The text of the      *)
(* arguments is read as a sequence of tokens: "[", "]", ",", "Q" for a     *)
(* text in single quotes, "U" for an opening single quote with no closing  *)
(* one, and "x" for any other character; spaces and tabs between tokens    *)
(* are left out.                                                           *)
(***************************************************************************)
RECURSIVE Tokens(_, _)
Tokens(text, i) ==
    IF i > Len(text) THEN <<>>
    ELSE IF text[i] \in {" ", "\t"} THEN Tokens(text, i + 1)
    ELSE IF text[i] = "'"
    THEN (IF IndexOfChar(text, "'", i + 1) = 0 THEN <<"U">>
          ELSE <<"Q">> \o Tokens(text, IndexOfChar(text, "'", i + 1) + 1))
    ELSE <<IF text[i] \in {"[", "]", ","} THEN text[i] ELSE "x">> \o Tokens(text, i + 1)

(* "[", quoted texts with a comma between each two, "]", and nothing else. *)
IsSingleQuotedList(tokens) ==
    /\ Len(tokens) >= 3
    /\ Len(tokens) % 2 = 1
    /\ tokens[1] = "[" /\ tokens[Len(tokens)] = "]"
    /\ \A k \in 2..(Len(tokens) - 1) : tokens[k] = (IF k % 2 = 0 THEN "Q" ELSE ",")

(* The same, where further opening brackets are passed over, a comma may   *)
(* follow the last quoted text, and anything may follow the closing        *)
(* bracket.                                                                *)
StartsAsSingleQuotedList(tokens) ==
    LET Loose(rest) ==
          \E n \in 1..Len(rest) :
             /\ rest[n] = "]"
             /\ n >= 2
             /\ \A k \in 1..(n - 1) : rest[k] = (IF k % 2 = 1 THEN "Q" ELSE ",")
    IN /\ tokens # <<>>
       /\ tokens[1] = "["
       /\ Loose(SelectSeq(Tail(tokens), LAMBDA t : t # "["))

JsonInstructions ==
    {i \in 1..Len(Instructions) :
        Instructions[i].keyword \in JsonKeywords /\ Instructions[i].args # <<>>}

ArgumentTokens(i) == Tokens(JoinArgs(Instructions[i].args), 1)

(* C26, as stated: when the rule is applied, an instruction gets           *)
(* JSON_IN_SINGLE_QUOTES, once, exactly when its arguments are "[", texts  *)
(* in single quotes separated by commas, and "]".                          *)
C26_ExactlySingleQuotedLists ==
    Done /\ RuleApplied("instructionJSONInSingleQuotes")
       => \A i \in JsonInstructions :
             CountCodeAt("JSON_IN_SINGLE_QUOTES", getArgumentsRange(Instructions[i]))
                = (IF IsSingleQuotedList(ArgumentTokens(i)) THEN 1 ELSE 0)

(* C26, amended: when the rule is applied, an instruction gets             *)
(* JSON_IN_SINGLE_QUOTES, once, exactly when its arguments open with "["   *)
(* and go on, further "[" aside, with texts in single quotes separated by  *)
(* commas, an optional comma after the last one, and "]"; what follows the *)
(* "]" is not read.  No other JSON_IN_SINGLE_QUOTES is reported.           *)
C26_SingleQuotedListPrefix ==
    Done /\ RuleApplied("instructionJSONInSingleQuotes")
       => /\ \A i \in JsonInstructions :
                CountCodeAt("JSON_IN_SINGLE_QUOTES", getArgumentsRange(Instructions[i]))
                   = (IF StartsAsSingleQuotedList(ArgumentTokens(i)) THEN 1 ELSE 0)
          /\ CountCode("JSON_IN_SINGLE_QUOTES")
                = Cardinality({i \in JsonInstructions :
                                 StartsAsSingleQuotedList(ArgumentTokens(i))})

(* A list of two texts on two arguments, reported, next to a list with a   *)
(* missing comma, not reported.                                            *)
C26_Witness ==
    /\ Done /\ RuleApplied("instructionJSONInSingleQuotes")
    /\ \E i \in JsonInstructions : /\ Len(Instructions[i].args) = 2
                                   /\ IsSingleQuotedList(ArgumentTokens(i))
    /\ \E i \in JsonInstructions : ArgumentTokens(i) = <<"[", "Q", "Q", "]">>
    /\ CountCode("JSON_IN_SINGLE_QUOTES") = 1

(***************************************************************************)
(* Properties of durations without a magnitude and unit.                   *)
(***************************************************************************)
ValuedDurationFlags ==
    {k \in 1..Len(HealthcheckFlags) :
        /\ HealthcheckFlags[k].name \in DurationFlagNames
        /\ HealthcheckFlags[k].hasValue
        /\ FlagValue(HealthcheckFlags[k]) # <<>>
        /\ FlagValue(HealthcheckFlags[k])[1] \in Digits \cup {".", "-"}}

(* The text has a number with a digit in it, of digits and periods, right  *)
(* before a character of a unit.                                           *)
HasMagnitudeAndUnit(text) ==
    \E j \in 2..Len(text) :
       /\ text[j] \notin Digits \cup {".", "-"}
       /\ \E i \in 1..(j - 1) :
             /\ text[i] \in Digits
             /\ \A m \in i..(j - 1) : text[m] \in Digits \cup {"."}

(* C27: a duration value that starts with a digit, a period or a hyphen    *)
(* and has no magnitude with a unit gets FLAG_MISSING_DURATION.            *)
C27_MissingDurationReported ==
    Done => \A k \in ValuedDurationFlags :
               ~HasMagnitudeAndUnit(FlagValue(HealthcheckFlags[k]))
                  => \E p \in WithCode("FLAG_MISSING_DURATION") :
                        p.range = FlagNode(k).valueRange

(***************************************************************************)
(* Properties of an ignore comment and the lines of the instruction under  *)
(* it.                                                                     *)
(***************************************************************************)
WithinLines(range, ins) ==
    /\ range.start.line >= ins.line
    /\ range.end.line <= ins.endLine

(* C28: an instruction whose first line is right under an ignore comment   *)
(* has no diagnostic with a range within its lines.                        *)
C28_IgnoreCommentSilencesInstruction ==
    Done => \A i \in 1..Len(Instructions) :
               UnderIgnoreComment(Instructions[i].line)
                  => \A p \in Returned : ~WithinLines(p.range, Instructions[i])

(***************************************************************************)
(* Properties of formatRange against the format of the whole document.     *)
(***************************************************************************)
(* The edits of the whole document's format that start on the lines of the *)
(* request's range, in the order format returns them.                      *)
DocumentEditsInRange ==
    SelectSeq(formatDocument(buffer, formatting),
              LAMBDA e : /\ e.range.start.line >= request.range.start.line
                         /\ e.range.start.line <= request.range.end.line)

(* C29: formatRange returns exactly the edits of the whole document's      *)
(* format that lie on the lines of the range, in the same order.           *)
C29_RangeEditsAreDocumentEdits ==
    Formatted /\ request.kind = "range" => edits = DocumentEditsInRange

(* A range was formatted and got an edit, while the whole document's       *)
(* format has an edit above the range and one below it.                    *)
C29_Witness ==
    /\ Formatted
    /\ request.kind = "range"
    /\ Len(edits) >= 1
    /\ \E i \in 1..Len(formatDocument(buffer, formatting)) :
          formatDocument(buffer, formatting)[i].range.start.line < request.range.start.line
    /\ \E i \in 1..Len(formatDocument(buffer, formatting)) :
          formatDocument(buffer, formatting)[i].range.start.line > request.range.end.line

(***************************************************************************)
(* Properties of flags that occur more than once.                          *)
(***************************************************************************)
(* The flag names an instruction recognizes. *)
RecognizedFlags(keyword) ==
    CASE keyword = "ADD" -> {"chmod", "chown", "checksum", "keep-git-dir", "link"}
      [] keyword = "COPY" -> {"chmod", "chown", "from", "link"}
      [] keyword = "HEALTHCHECK" ->
           {"interval", "retries", "start-period", "timeout", "start-interval"}
      [] OTHER -> {}

FlagOccurrences(ins, name) == {k \in 1..Len(ins.flags) : ins.flags[k].name = name}

(* C30: a recognized flag name that occurs twice or more in one ADD, COPY  *)
(* or HEALTHCHECK CMD instruction gets FLAG_DUPLICATE on each of its       *)
(* occurrences.                                                            *)
C30_EveryOccurrenceReported ==
    Done => \A i \in 1..Len(Instructions) :
            \A name \in RecognizedFlags(Instructions[i].keyword) :
               Cardinality(FlagOccurrences(Instructions[i], name)) >= 2 =>
                  \A k \in FlagOccurrences(Instructions[i], name) :
                     CountCodeAt("FLAG_DUPLICATE", Instructions[i].flags[k].nameRange) >= 1

====
